---- MODULE Spec2Model ----
(***************************************************************************)
(* A model of the trace-capture and metrics-aggregation pipeline of        *)
(* kvcache-lab (src/src/trace_collector).                                  *)
(*                                                                         *)
(*   SpecRates      matrix_report._compute_rates reading a match file      *)
(*                  line by line and returning the pooled rates.           *)
(*   SpecEntry      _compute_rates on a one-line match file, the line      *)
(*                  kept in the state.                                     *)
(*   SpecIntercept  one collection run: the scaffold adapters' language-   *)
(*                  model calls, the storage-driver wrappers installed by  *)
(*                  patch_neo4j_calls, the litellm patch of the tau2       *)
(*                  collector, and database snapshots.                     *)
(*   SpecTraceLogger  the loggers opened, one after the other, on one      *)
(*                  trace path: open, log, close, and a crash of the       *)
(*                  process.                                               *)
(*   SpecFlatten    the four adapters' flattening of one message list      *)
(*                  into the recorded input text.                          *)
(*   SpecOutput     the adapters' extraction of the recorded output text   *)
(*                  from one response.                                     *)
(*   SpecCollect    the item loop of collect() in the openai_base, mem0    *)
(*                  and graphiti collectors.                               *)
(*   SpecMatrix     one run of an orchestrator: run_matrix.main over the   *)
(*                  selected datasets and baselines, or run_all.main over  *)
(*                  the selected systems.                                  *)
(*   SpecAnalyze    one run of an analysis driver: analyze_matrix.main     *)
(*                  over the selected cells, or analyze.main over the      *)
(*                  selected systems.                                      *)
(*   SpecReport     one run of matrix_report.main over the matrix.         *)
(*   SpecBreakdown  the breakdown file of one matrix cell over successive  *)
(*                  collections, each with its own BreakdownLogger.        *)
(*   SpecAggregate  _compute_breakdown_metrics applied to an event stream. *)
(*   SpecPercentile _percentile asked of one duration list at several p.   *)
(*   SpecCypher     classify_cypher_query and cypher_hash applied to query *)
(*                  texts, and the report's grouping of their hashes.      *)
(*                                                                         *)
(* Each specification moves its own variables and leaves the others at     *)
(* their initial values.                                                   *)
(***************************************************************************)
EXTENDS Integers, Sequences, FiniteSets, TLC

VARIABLES
    \* ---- _compute_rates (matrix_report.py) ----
    phase,                    \* "reading" the match file, or "done"
    count,                    \* entries read so far
    total_input_tokens,
    total_prefix_matched,
    total_substring_matched,
    rates,                    \* the dict _compute_rates returns
    line,                     \* SpecEntry: the entry whose loop iteration is followed
    lastAdded,                \* SpecEntry: what that iteration added to the totals
    lastReversed,             \* SpecEntry: the same with the matches listed in reverse
    specCount,                \* history: lines read from the match file
    specInput,                \* history: sum of InputLen over the entries read
    specPrefix,               \* history: sum of LongestRunFromZero over them
    specUnion,                \* history: sum of the covered-index counts
    wellFormed,               \* history: every entry read so far is well formed
    exampleRead,              \* history: the lines read are a prefix of ExampleFile
    \* ---- interception layer ----
    adapter,                  \* the scaffold adapter of this collection run
    bLogger,                  \* TRUE iff a BreakdownLogger is configured
    installed,                \* call path -> function currently installed
    scopes,                   \* stack of open patch scopes, innermost first
    scopeSerial,              \* patch scopes entered so far
    lastExit,                 \* the latest patch scope that ended
    traceFile,                \* records appended through TraceLogger.log
    breakdown,                \* events appended through BreakdownLogger.log_event
    calls,                    \* calls made so far (their ids are 1 .. calls)
    lmCalls,                  \* the language-model calls among them, with their fate
    lastCall,                 \* the latest intercepted call and its outcome
    \* ---- TraceLogger (common.py) on one trace path ----
    disk,                     \* what the file at the path holds, character by character
    buffer,                   \* written through the open handle but not yet flushed
    handle,                   \* "none", "open", "closed", or "lost" in a crash
    session,                  \* session_id of the logger that holds the handle
    logged,                   \* history: the log() calls of that logger that returned
    crashed,                  \* the process died; what is on disk is all that is left
    runs,                     \* loggers opened on the path so far
    \* ---- prompt flattening and output extraction of the adapters ----
    messages,                 \* the message list handed to the adapters
    inputText,                \* adapter -> the input text it records for it
    response,                 \* the message of the response's first choice
    outputText,               \* adapter -> the output text and call_type it records
    \* ---- the item loop of one collect() ----
    items,                    \* number of rows of the corpus
    attempts,                 \* the items tried so far, in order, with their outcome
    collectStatus,            \* "idle", "running", "returned", or "aborted" by an exception
    \* ---- the orchestrators: run_matrix.main and run_all.main ----
    cliArgs,                  \* the tool and its parsed command line
    cursor,                   \* the dataset and baseline the loops stand at
    results,                  \* the result table, in the order the rows were added
    invoked,                  \* history: the cells whose collector was called, in order
    loadFailed,               \* history: the datasets whose loader raised
    lastCell,                 \* history: the latest cell handled and its files
    exitCode,                 \* "running", "0", "1", or "interrupted"
    summaryPrinted,           \* the summary table has been printed
    \* ---- matrix_report.main ----
    rows,                     \* the matrix-status rows collected so far
    breakdown_rows,           \* the workload-breakdown rows collected so far
    lastSeen,                 \* history: the files the latest pair found on disk
    report,                   \* the two tables of the written report, or NoReport
    \* ---- BreakdownLogger and the file of one matrix cell ----
    bdFile,                   \* the events in the cell's breakdown file, in file order
    bdLogger,                 \* the open logger's shared context, or NoLogger
    bdCalls,                  \* history: the log_event calls of the open logger, in call order
    bdRuns,                   \* number of collections started on the cell so far
    \* ---- matrix_report._compute_breakdown_metrics ----
    stream,                   \* the events of the breakdown file that is read
    metrics,                  \* the metrics returned, or NoMetrics
    \* ---- matrix_report._percentile ----
    durations,                \* the duration list the percentiles are asked of
    percentiles,              \* history: the calls made, as records of p and result
    \* ---- neo4j_metrics: classify_cypher_query and cypher_hash ----
    query,                    \* the text of a query, as a sequence of characters
    queryB,                   \* the text of a second query that is compared with it
    relation,                 \* history: how the second query was derived from the first
    tag,                      \* classify_cypher_query(query), or "none"
    hashes,                   \* cypher_hash of the two queries, or NoHashes
    patterns,                 \* the top_queries the report derives from the two queries
    \* ---- datasets: load_dataset ----
    taubench,                 \* the lines of lmcache-agent-trace/taubench/*.jsonl, in sorted path order
    loaded,                   \* the last load_dataset call: its arguments and the rows it returned
    \* ---- one cell of the matrix, or one system of run_all, run and run again ----
    lcCell,                   \* the collector, the number of rows and whether its dataset or domain is known
    lcRun,                    \* the run under way: first or later, --skip-existing, --with-breakdown
    lcPc,                     \* the position of the run
    lcDisk,                   \* the trace file and the breakdown file of the cell
    lcPatched,                \* whether a traced wrapper is installed on the call path
    lcSent,                   \* the workload items sent in this run
    lcRaise,                  \* history: what had been done when the collector raised
    lcTable,                  \* the rows the runs recorded for the cell
    \* ---- patch_neo4j_calls scopes held by concurrent tasks ----
    ovInstalled,              \* what each call path currently resolves to
    ovScopes,                 \* the scopes entered so far, in order of entry
    ovPeak,                   \* history: the most scopes that were active at once
    \* ---- _compute_hit_rates (compare_chart.py) beside _compute_rates ----
    cmCount,                  \* lines of the match file read so far
    cmChart,                  \* the totals of _compute_hit_rates
    cmReport,                 \* the totals of _compute_rates
    cmWellFormed,             \* history: every line read had its ranges within its input
    cmOut                     \* what the two functions returned

ratesVars == <<phase, count, total_input_tokens, total_prefix_matched,
               total_substring_matched, rates, line, lastAdded, lastReversed,
               specCount, specInput, specPrefix, specUnion, wellFormed, exampleRead>>

icVars == <<adapter, bLogger, installed, scopes, scopeSerial, lastExit,
            traceFile, breakdown, calls, lmCalls, lastCall>>

tlVars == <<disk, buffer, handle, session, logged, crashed, runs>>

flVars == <<messages, inputText>>

outVars == <<response, outputText>>

colVars == <<items, attempts, collectStatus>>

mxVars == <<cliArgs, cursor, results, invoked, loadFailed, lastCell, exitCode, summaryPrinted>>

rpVars == <<rows, breakdown_rows, lastSeen, report>>

bdVars == <<bdFile, bdLogger, bdCalls, bdRuns>>

agVars == <<stream, metrics>>

pcVars == <<durations, percentiles>>

cyVars == <<query, queryB, relation, tag, hashes, patterns>>

dsVars == <<taubench, loaded>>

lcVars == <<lcCell, lcRun, lcPc, lcDisk, lcPatched, lcSent, lcRaise, lcTable>>

ovVars == <<ovInstalled, ovScopes, ovPeak>>

cmVars == <<cmCount, cmChart, cmReport, cmWellFormed, cmOut>>

lateVars == <<rpVars, bdVars, agVars, pcVars, cyVars, dsVars, lcVars, ovVars, cmVars>>

moreVars == <<tlVars, flVars, outVars, colVars, mxVars, lateVars>>

vars == <<ratesVars, icVars, moreVars>>

Max(a, b) == IF a >= b THEN a ELSE b

Min(a, b) == IF a <= b THEN a ELSE b

(***************************************************************************)
(* Bounds of the model.                                                    *)
(***************************************************************************)
MaxInputLen == 2

MaxMatches == 2

MaxEntries == 3

MaxCalls == 2

MaxDepth == 2

MaxScopes == 2

MaxRecords == 2

MaxRuns == 2

MaxMessages == 2

MaxToolCalls == 2

MaxItems == 3

MaxDatasets == 2

MaxAnalyzedDatasets == 1

MaxEvents == 3

MaxWords == 3

MaxLines == 3

MaxRows == 2

MaxTopEvents == 5

MaxTasks == 3

MaxTagWords == 3

MaxFileLen == 2

MaxFileMatches == 2

MaxFileLines == 3

(***************************************************************************)
(* Match entries.  A match is <<MatchStart, MatchEnd>>; the coordinates    *)
(* reach one token outside [0, InputLen] so that clipping happens, and     *)
(* MatchStart > MatchEnd is allowed (a malformed range).                   *)
(***************************************************************************)
RangesOf(n) == (-1 .. n) \X (0 .. n + 1)

MatchListsOf(n) == UNION {[1 .. k -> RangesOf(n)] : k \in 0 .. MaxMatches}

GeneralEntries ==
    UNION {{[InputLen |-> n, Matches |-> ms] : ms \in MatchListsOf(n)} : n \in 0 .. MaxInputLen}

WellFormedEntry(e) ==
    \A i \in 1 .. Len(e.Matches) :
        /\ 0 <= e.Matches[i][1]
        /\ e.Matches[i][1] <= e.Matches[i][2]
        /\ e.Matches[i][2] <= e.InputLen

\* The lines of a multi-line match file: the well-formed entries, and every
\* entry of InputLen 0 whatever its ranges.
FileEntries == {e \in GeneralEntries : e.InputLen = 0 \/ WellFormedEntry(e)}

\* The entries of test_compute_rates_handles_overlap_and_prefix.
ExampleFile ==
    << [InputLen |-> 10, Matches |-> << <<0, 3>>, <<2, 5>>, <<7, 9>> >>],
       [InputLen |-> 8,  Matches |-> << <<2, 4>> >>] >>

(***************************************************************************)
(* Rates are Python floats obtained by dividing two ints; the model keeps  *)
(* them as reduced fractions <<numerator, denominator>>.                   *)
(***************************************************************************)
RECURSIVE GCD(_, _)
GCD(a, b) == IF b = 0 THEN a ELSE GCD(b, a % b)

Abs(a) == IF a < 0 THEN 0 - a ELSE a

Frac(n, d) ==
    LET g == GCD(Abs(n), d) IN <<n \div g, d \div g>>

FracSub(x, y) == Frac(x[1] * y[2] - y[1] * x[2], x[2] * y[2])

FracLeq(x, y) == x[1] * y[2] <= y[1] * x[2]

Zero == <<0, 1>>

(***************************************************************************)
(* _compute_rates, lines 75-93: the per-entry coverage.                    *)
(***************************************************************************)
ClipRange(m, input_len) == <<Max(0, m[1]), Min(input_len, m[2])>>

\* lines 75-80: matched_tokens, a set filled range by range
RECURSIVE MatchedTokensUnclipped(_, _)
MatchedTokensUnclipped(matches, input_len) ==
    IF matches = <<>> THEN {}
    ELSE (Max(0, Head(matches)[1]) .. (Head(matches)[2] - 1))
             \cup MatchedTokensUnclipped(Tail(matches), input_len)

RECURSIVE MatchedTokens(_, _)
MatchedTokens(matches, input_len) ==
    IF matches = <<>> THEN {}
    ELSE LET r == ClipRange(Head(matches), input_len)
         IN  (r[1] .. (r[2] - 1)) \cup MatchedTokens(Tail(matches), input_len)

\* sorted(..., key=lambda x: x[0]) is a stable sort on the start alone
RECURSIVE InsertByStart(_, _)
InsertByStart(r, s) ==
    IF s = <<>> THEN <<r>>
    ELSE IF r[1] < Head(s)[1] THEN <<r>> \o s
    ELSE <<Head(s)>> \o InsertByStart(r, Tail(s))

RECURSIVE SortByStart(_)
SortByStart(s) ==
    IF s = <<>> THEN <<>>
    ELSE InsertByStart(s[Len(s)], SortByStart(SubSeq(s, 1, Len(s) - 1)))

UnsortedRanges(matches, input_len) ==
    [i \in 1 .. Len(matches) |-> ClipRange(matches[i], input_len)]

\* lines 83-86: sorted_ranges
SortedRanges(matches, input_len) ==
    SortByStart([i \in 1 .. Len(matches) |-> ClipRange(matches[i], input_len)])

RECURSIVE PrefixScanNoGap(_, _)
PrefixScanNoGap(s, prefix_end) ==
    IF s = <<>> THEN prefix_end
    ELSE PrefixScanNoGap(Tail(s), Max(prefix_end, Head(s)[2]))

\* lines 87-92: the loop extending prefix_end, leaving at the first gap
RECURSIVE PrefixScan(_, _)
PrefixScan(s, prefix_end) ==
    IF s = <<>> THEN prefix_end
    ELSE IF Head(s)[1] <= prefix_end
         THEN PrefixScan(Tail(s), Max(prefix_end, Head(s)[2]))
         ELSE prefix_end

InputCountedIfMatched(e) ==
    IF e.InputLen = 0 \/ e.Matches = <<>> THEN 0 ELSE e.InputLen

\* line 71: the entry's InputLen joins the total before the early continue
InputCounted(e) == e.InputLen

\* what one loop iteration adds to the totals (lines 68-93)
EntryAdds(e) ==
    IF e.InputLen = 0 \/ e.Matches = <<>>
    THEN [input |-> InputCounted(e), prefix |-> 0, substring |-> 0]
    ELSE [input     |-> InputCounted(e),
          prefix    |-> PrefixScan(SortedRanges(e.Matches, e.InputLen), 0),
          substring |-> Cardinality(MatchedTokens(e.Matches, e.InputLen))]

RatesNoGuard(n, total_input, total_prefix, total_substring) ==
    IF total_input = 0 \/ n = 0
    THEN [error |-> TRUE, count |-> n, avg_tokens |-> Zero, prefix |-> Zero,
          substring |-> Zero, gap |-> Zero]
    ELSE [error      |-> FALSE,
          count      |-> n,
          avg_tokens |-> Frac(total_input, n),
          prefix     |-> Frac(total_prefix, total_input),
          substring  |-> Frac(total_substring, total_input),
          gap        |-> FracSub(Frac(total_substring, total_input),
                                 Frac(total_prefix, total_input))]

\* lines 95-112: the returned dict; error is TRUE iff a ZeroDivisionError is raised
RatesOf(n, total_input, total_prefix, total_substring) ==
    IF total_input = 0 \/ n = 0
    THEN [error |-> FALSE, count |-> n, avg_tokens |-> Zero, prefix |-> Zero,
          substring |-> Zero, gap |-> Zero]
    ELSE [error      |-> FALSE,
          count      |-> n,
          avg_tokens |-> Frac(total_input, n),
          prefix     |-> Frac(total_prefix, total_input),
          substring  |-> Frac(total_substring, total_input),
          gap        |-> FracSub(Frac(total_substring, total_input),
                                 Frac(total_prefix, total_input))]

(***************************************************************************)
(* The properties' own reading of an entry, by token index.                *)
(***************************************************************************)
CoveredIndices(e) ==
    {t \in 0 .. e.InputLen - 1 :
        \E i \in 1 .. Len(e.Matches) : e.Matches[i][1] <= t /\ t < e.Matches[i][2]}

LongestRunFromZero(e) ==
    CHOOSE k \in 0 .. e.InputLen :
        /\ \A t \in 0 .. k - 1 : t \in CoveredIndices(e)
        /\ \A j \in k + 1 .. e.InputLen : \E t \in 0 .. j - 1 : t \notin CoveredIndices(e)

NoEntry == [InputLen |-> 0, Matches |-> <<>>]

NoRates == [error |-> FALSE, count |-> 0, avg_tokens |-> Zero, prefix |-> Zero,
            substring |-> Zero, gap |-> Zero]

NoAdds == [input |-> 0, prefix |-> 0, substring |-> 0]

RatesInit ==
    /\ count = 0
    /\ total_input_tokens = 0
    /\ total_prefix_matched = 0
    /\ total_substring_matched = 0
    /\ rates = NoRates
    /\ lastAdded = NoAdds
    /\ lastReversed = NoAdds
    /\ specCount = 0
    /\ specInput = 0
    /\ specPrefix = 0
    /\ specUnion = 0
    /\ wellFormed = TRUE
    /\ exampleRead = TRUE

(***************************************************************************)
(* Interception layer: names.                                              *)
(***************************************************************************)
DriverExecuteQuery == "Driver.execute_query"

AsyncDriverExecuteQuery == "AsyncDriver.execute_query"

SessionRun == "Session.run"

AsyncSessionRun == "AsyncSession.run"

LitellmCompletion == "litellm.completion"

Neo4jPaths == {DriverExecuteQuery, AsyncDriverExecuteQuery, SessionRun, AsyncSessionRun}

Paths == Neo4jPaths \cup {LitellmCompletion}

\* installed[p] = Original: the library's own function; k > 0: the wrapper
\* defined by the k-th patch scope entered
Original == 0

\* Values handed around by the calls: a result object or an exception.
Result(name) == [kind |-> "result", name |-> name, cause |-> "none"]

Exc(name) == [kind |-> "exception", name |-> name, cause |-> "none"]

ExcFrom(name, e) == [kind |-> "exception", name |-> name, cause |-> e.name]

None == [kind |-> "none", name |-> "none", cause |-> "none"]

NoCall == [id |-> 0, via |-> "none", args |-> <<>>, kwargs |-> {}, fwdArgs |-> <<>>,
           fwdKwargs |-> {}, under |-> "none", underVal |-> None,
           out |-> "none", outVal |-> None, captureFailed |-> FALSE]

NoExit == [kind |-> "none", how |-> "none", atEntry |-> [p \in Paths |-> Original],
           after |-> [p \in Paths |-> Original]]

InterceptIdle ==
    /\ adapter = "none"
    /\ bLogger = FALSE
    /\ installed = [p \in Paths |-> Original]
    /\ scopes = <<>>
    /\ scopeSerial = 0
    /\ lastExit = NoExit
    /\ traceFile = <<>>
    /\ breakdown = <<>>
    /\ calls = 0
    /\ lmCalls = {}
    /\ lastCall = NoCall

TraceLoggerIdle ==
    /\ disk = <<>>
    /\ buffer = <<>>
    /\ handle = "none"
    /\ session = "none"
    /\ logged = <<>>
    /\ crashed = FALSE
    /\ runs = 0

Unset == [set |-> FALSE, text |-> <<>>, call_type |-> "none"]

FlattenIdle ==
    /\ messages = <<>>
    /\ inputText = [a \in {"openai_base", "mem0", "graphiti", "tau2"} |-> Unset]

NoMessage == [content |-> [kind |-> "none", text |-> <<>>, blocks |-> <<>>], tool_calls |-> <<>>]

OutputIdle ==
    /\ response = NoMessage
    /\ outputText = [a \in {"openai_base", "mem0", "tau2"} |-> Unset]

CollectIdle ==
    /\ items = 0
    /\ attempts = <<>>
    /\ collectStatus = "idle"

NoArgs == [tool |-> "none", datasets |-> <<>>, baselines |-> <<>>, systems |-> <<>>,
           skip_existing |-> FALSE, with_breakdown |-> FALSE]

NoCell == [dataset |-> "none", baseline |-> "none", how |-> "none",
           traceBefore |-> "absent", traceAfter |-> "absent",
           breakdownBefore |-> "absent", breakdownAfter |-> "absent"]

MatrixIdle ==
    /\ cliArgs = NoArgs
    /\ cursor = [d |-> 0, b |-> 0]
    /\ results = <<>>
    /\ invoked = <<>>
    /\ loadFailed = {}
    /\ lastCell = NoCell
    /\ exitCode = "running"
    /\ summaryPrinted = FALSE

NoFiles == [trace |-> FALSE, legacy_trace |-> FALSE, matches |-> FALSE,
            legacy_matches |-> FALSE, breakdown |-> FALSE]

NoReport == [written |-> FALSE, matrix_status |-> <<>>, workload_breakdown |-> <<>>]

ReportIdle ==
    /\ rows = <<>>
    /\ breakdown_rows = <<>>
    /\ lastSeen = NoFiles
    /\ report = NoReport

NoLogger == [open |-> FALSE, context |-> <<>>]

BreakdownIdle ==
    /\ bdFile = <<>>
    /\ bdLogger = NoLogger
    /\ bdCalls = <<>>
    /\ bdRuns = 0

NoMetrics == [status |-> "none"]

AggregateIdle ==
    /\ stream = <<>>
    /\ metrics = NoMetrics

PercentileIdle ==
    /\ durations = <<>>
    /\ percentiles = {}

NoHashes == [set |-> FALSE, a |-> <<>>, b |-> <<>>]

CypherIdle ==
    /\ query = <<>>
    /\ queryB = <<>>
    /\ relation = "none"
    /\ tag = "none"
    /\ hashes = NoHashes
    /\ patterns = <<>>

NoLimit == [given |-> FALSE, n |-> 0]

NotLoaded == [called |-> FALSE, dataset |-> "none", num_items |-> NoLimit, rows |-> <<>>]

DatasetIdle ==
    /\ taubench = <<>>
    /\ loaded = NotLoaded

NoFile == [exists |-> FALSE, lines |-> <<>>, touched |-> FALSE]

NoRaise == [kind |-> "none", turn |-> "none", trace |-> FALSE, breakdown |-> FALSE,
            patched |-> FALSE, sent |-> 0]

LifecycleIdle ==
    /\ lcCell = [collector |-> "none", rows |-> 0, known |-> TRUE]
    /\ lcRun = [turn |-> "none", skip_existing |-> FALSE, with_breakdown |-> FALSE]
    /\ lcPc = "idle"
    /\ lcDisk = [trace |-> NoFile, breakdown |-> NoFile]
    /\ lcPatched = FALSE
    /\ lcSent = 0
    /\ lcRaise = NoRaise
    /\ lcTable = <<>>

OverlapIdle ==
    /\ ovInstalled = [p \in Paths |-> Original]
    /\ ovScopes = <<>>
    /\ ovPeak = 0

NoOutput == [done |-> FALSE, chart |-> NoRates, report |-> NoRates]

CompareIdle ==
    /\ cmCount = 0
    /\ cmChart = NoAdds
    /\ cmReport = NoAdds
    /\ cmWellFormed = TRUE
    /\ cmOut = NoOutput

LateIdle ==
    /\ ReportIdle /\ BreakdownIdle /\ AggregateIdle /\ PercentileIdle /\ CypherIdle
    /\ DatasetIdle /\ LifecycleIdle /\ OverlapIdle /\ CompareIdle

MoreIdle ==
    TraceLoggerIdle /\ FlattenIdle /\ OutputIdle /\ CollectIdle /\ MatrixIdle /\ LateIdle

(***************************************************************************)
(* _compute_rates as a state machine: one step per line of the match file, *)
(* then the division.                                                      *)
(***************************************************************************)
Reverse(s) == [i \in 1 .. Len(s) |-> s[Len(s) + 1 - i]]

\* lines 66-93: one iteration of "for line in f" on entry e
Iterate(e) ==
    LET a == EntryAdds(e) IN
    /\ count' = count + 1
    /\ total_input_tokens' = total_input_tokens + a.input
    /\ total_prefix_matched' = total_prefix_matched + a.prefix
    /\ total_substring_matched' = total_substring_matched + a.substring
    /\ specCount' = specCount + 1
    /\ specInput' = specInput + e.InputLen
    /\ specPrefix' = specPrefix + LongestRunFromZero(e)
    /\ specUnion' = specUnion + Cardinality(CoveredIndices(e))
    /\ wellFormed' = (wellFormed /\ WellFormedEntry(e))
    /\ exampleRead' = (exampleRead /\ count < Len(ExampleFile) /\ e = ExampleFile[count + 1])

\* the next line of the match file is any entry, or the next line of ExampleFile
ReadEntry ==
    /\ phase = "reading"
    /\ count < MaxEntries
    /\ \/ \E e \in FileEntries : Iterate(e)
       \/ /\ exampleRead
          /\ count < Len(ExampleFile)
          /\ Iterate(ExampleFile[count + 1])
    /\ UNCHANGED <<phase, rates, line, lastAdded, lastReversed>>
    /\ UNCHANGED <<icVars, moreVars>>

\* the single line of a one-line match file
ProcessLine ==
    /\ phase = "line"
    /\ phase' = "reading"
    /\ Iterate(line)
    /\ lastAdded' = EntryAdds(line)
    /\ lastReversed' = EntryAdds([line EXCEPT !.Matches = Reverse(line.Matches)])
    /\ UNCHANGED <<rates, line>>
    /\ UNCHANGED <<icVars, moreVars>>

\* lines 95-112: end of file, the rates are computed and returned
Finish ==
    /\ phase = "reading"
    /\ phase' = "done"
    /\ rates' = RatesOf(count, total_input_tokens, total_prefix_matched,
                        total_substring_matched)
    /\ UNCHANGED <<count, total_input_tokens, total_prefix_matched,
                   total_substring_matched, line, lastAdded, lastReversed,
                   specCount, specInput, specPrefix, specUnion, wellFormed,
                   exampleRead>>
    /\ UNCHANGED <<icVars, moreVars>>

InitRates == phase = "reading" /\ line = NoEntry /\ RatesInit /\ InterceptIdle /\ MoreIdle

NextRates == ReadEntry \/ Finish

SpecRates == InitRates /\ [][NextRates]_vars

InitEntry ==
    /\ phase = "line"
    /\ line \in GeneralEntries \cup {ExampleFile[i] : i \in 1 .. Len(ExampleFile)}
    /\ RatesInit
    /\ InterceptIdle
    /\ MoreIdle

NextEntry == ProcessLine \/ Finish

SpecEntry == InitEntry /\ [][NextEntry]_vars

(***************************************************************************)
(* Properties of _compute_rates.                                           *)
(***************************************************************************)

\* C6: for every sequence of well-formed match entries the summed prefix
\* coverage never exceeds the summed union coverage, and the returned rates
\* satisfy prefix <= substring and gap = substring - prefix >= 0.
C6_PrefixNeverExceedsSubstring ==
    wellFormed =>
        /\ total_prefix_matched <= total_substring_matched
        /\ phase = "done" =>
              /\ FracLeq(rates.prefix, rates.substring)
              /\ rates.gap = FracSub(rates.substring, rates.prefix)
              /\ FracLeq(Zero, rates.gap)

C6_Witness ==
    /\ phase = "done"
    /\ wellFormed
    /\ count = 3
    /\ rates.prefix # Zero
    /\ rates.gap # Zero

\* C7: for an entry with InputLen > 0 the amount added to the prefix total is
\* the largest k such that every index of [0, k) is covered by a range
\* clipped to [0, InputLen); it is 0 when no range covers index 0, and it is
\* the same when the ranges are listed in another order.
C7_PrefixIsLongestRunFromZero ==
    (phase # "line" /\ line.InputLen > 0) =>
        /\ lastAdded.prefix = LongestRunFromZero(line)
        /\ (0 \notin CoveredIndices(line) => lastAdded.prefix = 0)
        /\ lastReversed.prefix = lastAdded.prefix

\* two touching ranges listed out of order
C7_Witness ==
    /\ phase # "line"
    /\ line = [InputLen |-> 2, Matches |-> << <<1, 2>>, <<0, 1>> >>]
    /\ lastAdded.prefix = 2

\* C8: for an entry with InputLen > 0 and at least one match the amount
\* added to the substring total is the number of distinct indices of
\* [0, InputLen) lying in at least one range [MatchStart, MatchEnd).
C8_SubstringIsUnionSize ==
    (phase # "line" /\ line.InputLen > 0 /\ line.Matches # <<>>) =>
        lastAdded.substring = Cardinality(CoveredIndices(line))

\* two overlapping ranges, one reaching past InputLen
C8_Witness ==
    /\ phase # "line"
    /\ line = [InputLen |-> 2, Matches |-> << <<0, 2>>, <<1, 3>> >>]
    /\ lastAdded.substring = 2

\* C9: the rates are pooled: prefix and substring are the summed coverages
\* over the summed InputLen of all entries (entries without matches
\* included), count is the number of entries and avg_tokens the summed
\* InputLen over count; the two entries of ExampleFile give count 2,
\* avg_tokens 9, prefix 5/18, substring 9/18 and gap 4/18.
C9_PooledRates ==
    /\ (phase = "done" /\ specInput > 0) =>
          /\ ~rates.error
          /\ rates.count = specCount
          /\ rates.avg_tokens = Frac(specInput, specCount)
          /\ rates.prefix = Frac(specPrefix, specInput)
          /\ rates.substring = Frac(specUnion, specInput)
    /\ (phase = "done" /\ exampleRead /\ specCount = Len(ExampleFile)) =>
          rates = [error |-> FALSE, count |-> 2, avg_tokens |-> <<9, 1>>,
                   prefix |-> <<5, 18>>, substring |-> <<1, 2>>, gap |-> <<2, 9>>]

C9_Witness ==
    /\ phase = "done"
    /\ exampleRead
    /\ specCount = Len(ExampleFile)
    /\ rates.prefix = <<5, 18>>

\* C10: an entry with InputLen = 0 leaves the three totals unchanged whatever
\* ranges it lists, and a file with no entries or with total InputLen 0
\* returns prefix = substring = gap = avg_tokens = 0 without a division
\* error, count being the number of entries read.
C10_ZeroLengthEntries ==
    [][/\ (specCount' = specCount + 1 /\ specInput' = specInput) =>
            UNCHANGED <<total_input_tokens, total_prefix_matched,
                        total_substring_matched>>
       /\ (phase' = "done" /\ (specCount' = 0 \/ specInput' = 0)) =>
            rates' = [error |-> FALSE, count |-> specCount', avg_tokens |-> Zero,
                      prefix |-> Zero, substring |-> Zero, gap |-> Zero]]_vars

\* two entries of InputLen 0, one of them listing a range
C10_Witness ==
    /\ phase = "done"
    /\ specCount = 2
    /\ specInput = 0
    /\ ~wellFormed
    /\ rates.count = 2
    /\ rates.prefix = Zero

(***************************************************************************)
(* Interception layer.                                                     *)
(***************************************************************************)
Adapters == {"openai_base", "mem0", "graphiti", "tau2"}

\* what the underlying language-model call does: it returns a response or raises
Responses == {Result("response_a"), Result("response_b")}

RateLimit == Exc("openai.RateLimitError")

LlmErrors == {RateLimit, Exc("openai.APIConnectionError")}

\* what the underlying storage call does
QueryResults == {Result("result_a"), Result("result_b")}

QueryErrors == {Exc("neo4j.ServiceUnavailable")}

\* raised while the breakdown event is built from a result of an unexpected shape
CaptureError == Exc("TypeError")

ArgLists == {<<"a1">>, <<"a1", "a2">>}

KwargSets == {{}, {"k1"}}

TraceLogDropped(file, c) == file

\* TraceLogger.log: one line, written and flushed at once
TraceLog(file, c) == Append(file, [call |-> c, session_id |-> adapter])

\* BreakdownLogger.log_event: one line, written and flushed at once
LogEvent(log, component, op, status, c) ==
    Append(log, [component |-> component, op |-> op, status |-> status, call |-> c])

LogIfEnabled(log, component, op, status, c) ==
    IF bLogger THEN LogEvent(log, component, op, status, c) ELSE log

InterceptInit ==
    /\ adapter \in Adapters
    /\ bLogger \in BOOLEAN
    /\ adapter = "tau2" => ~bLogger
    /\ installed = [p \in Paths |-> Original]
    /\ scopes = <<>>
    /\ scopeSerial = 0
    /\ lastExit = NoExit
    /\ traceFile = <<>>
    /\ breakdown = <<>>
    /\ calls = 0
    /\ lmCalls = {}
    /\ lastCall = NoCall

\* ---- the scaffold adapters' language-model calls ----

\* openai_base_collector.collect, lines 67-132: one item of the corpus
OpenaiBaseItem ==
    /\ adapter = "openai_base"
    /\ calls < MaxCalls
    /\ \E u \in Responses \cup LlmErrors :
        LET c == calls + 1 IN
        /\ calls' = c
        /\ IF u.kind = "exception"
           THEN /\ traceFile' = traceFile
                /\ breakdown' = LogIfEnabled(breakdown, "openai", "chat_completion", "error", c)
                /\ lmCalls' = lmCalls \cup {[id |-> c, fate |-> "raised"]}
                /\ lastCall' = [NoCall EXCEPT !.id = c, !.via = "openai_base.collect",
                                              !.under = "raised", !.underVal = u,
                                              !.out = "continued"]
           ELSE /\ traceFile' = TraceLog(traceFile, c)
                /\ breakdown' = LogIfEnabled(breakdown, "openai", "chat_completion", "ok", c)
                /\ lmCalls' = lmCalls \cup {[id |-> c, fate |-> "response"]}
                /\ lastCall' = [NoCall EXCEPT !.id = c, !.via = "openai_base.collect",
                                              !.under = "returned", !.underVal = u,
                                              !.out = "continued"]
    /\ UNCHANGED <<adapter, bLogger, installed, scopes, scopeSerial, lastExit>>
    /\ UNCHANGED <<ratesVars, moreVars>>

\* mem0_collector._make_callback.callback: mem0 hands it every response it
\* receives; a call that raises has no response and never reaches the callback
Mem0LlmCall ==
    /\ adapter = "mem0"
    /\ calls < MaxCalls
    /\ \E u \in Responses \cup LlmErrors :
        LET c == calls + 1 IN
        /\ calls' = c
        /\ IF u.kind = "exception"
           THEN /\ UNCHANGED <<traceFile, breakdown>>
                /\ lmCalls' = lmCalls \cup {[id |-> c, fate |-> "raised"]}
                /\ lastCall' = [NoCall EXCEPT !.id = c, !.via = "mem0.response_callback",
                                              !.under = "raised", !.underVal = u,
                                              !.out = "not_called"]
           ELSE /\ traceFile' = TraceLog(traceFile, c)
                /\ breakdown' = LogIfEnabled(breakdown, "openai", "chat_completion", "ok", c)
                /\ lmCalls' = lmCalls \cup {[id |-> c, fate |-> "response"]}
                /\ lastCall' = [NoCall EXCEPT !.id = c, !.via = "mem0.response_callback",
                                              !.under = "returned", !.underVal = u,
                                              !.out = "returned", !.outVal = None]
    /\ UNCHANGED <<adapter, bLogger, installed, scopes, scopeSerial, lastExit>>
    /\ UNCHANGED <<ratesVars, moreVars>>

\* graphiti_collector, lines 134-138: what _generate_response raises when
\* chat.completions.create raised u
GraphitiRaised(u) ==
    IF u = RateLimit THEN ExcFrom("graphiti_core.RateLimitError", u) ELSE u

\* graphiti_collector.TracingOpenAIGenericClient._generate_response
GraphitiGenerateResponse ==
    /\ adapter = "graphiti"
    /\ calls < MaxCalls
    /\ \E u \in Responses \cup LlmErrors, decodes \in BOOLEAN :
        LET c == calls + 1 IN
        /\ calls' = c
        /\ IF u.kind = "exception"
           THEN /\ UNCHANGED <<traceFile, breakdown>>
                /\ lmCalls' = lmCalls \cup {[id |-> c, fate |-> "raised"]}
                /\ lastCall' = [NoCall EXCEPT !.id = c, !.via = "graphiti._generate_response",
                                              !.under = "raised", !.underVal = u,
                                              !.out = "raised", !.outVal = GraphitiRaised(u)]
           ELSE IF ~decodes
           THEN \* json.loads raises inside the try; the except clause re-raises it
                /\ UNCHANGED <<traceFile, breakdown>>
                /\ lmCalls' = lmCalls \cup {[id |-> c, fate |-> "undecodable"]}
                /\ lastCall' = [NoCall EXCEPT !.id = c, !.via = "graphiti._generate_response",
                                              !.under = "returned", !.underVal = u,
                                              !.out = "raised",
                                              !.outVal = Exc("json.JSONDecodeError")]
           ELSE /\ traceFile' = TraceLog(traceFile, c)
                /\ breakdown' = LogIfEnabled(breakdown, "openai", "chat_completion", "ok", c)
                /\ lmCalls' = lmCalls \cup {[id |-> c, fate |-> "response"]}
                /\ lastCall' = [NoCall EXCEPT !.id = c, !.via = "graphiti._generate_response",
                                              !.under = "returned", !.underVal = u,
                                              !.out = "returned",
                                              !.outVal = Result("parsed_json")]
    /\ UNCHANGED <<adapter, bLogger, installed, scopes, scopeSerial, lastExit>>
    /\ UNCHANGED <<ratesVars, moreVars>>

ForwardPositionalOnly(args, kwargs) == [args |-> args, kwargs |-> {}]

\* original(self, *args, **kwargs): what the wrapper hands to the underlying call
Forward(args, kwargs) == [args |-> args, kwargs |-> kwargs]

\* tau2_collector._patch_litellm.traced_completion, reached through
\* litellm.completion while the patch is installed
Tau2TracedCompletion ==
    /\ adapter = "tau2"
    /\ Len(scopes) = 1
    /\ installed[LitellmCompletion] # Original
    /\ calls < MaxCalls
    /\ \E u \in Responses \cup LlmErrors, args \in ArgLists, kwargs \in KwargSets :
        LET c == calls + 1
            f == Forward(args, kwargs)
            call == [NoCall EXCEPT !.id = c, !.via = LitellmCompletion, !.args = args,
                                   !.kwargs = kwargs, !.fwdArgs = f.args,
                                   !.fwdKwargs = f.kwargs, !.underVal = u]
        IN
        /\ calls' = c
        /\ IF u.kind = "exception"
           THEN \* no try around original_completion: the exception passes through
                /\ UNCHANGED <<traceFile, breakdown>>
                /\ lmCalls' = lmCalls \cup {[id |-> c, fate |-> "raised"]}
                /\ lastCall' = [call EXCEPT !.under = "raised", !.out = "raised", !.outVal = u]
           ELSE /\ traceFile' = TraceLog(traceFile, c)
                /\ UNCHANGED breakdown
                /\ lmCalls' = lmCalls \cup {[id |-> c, fate |-> "response"]}
                /\ lastCall' = [call EXCEPT !.under = "returned", !.out = "returned",
                                            !.outVal = u]
    /\ UNCHANGED <<adapter, bLogger, installed, scopes, scopeSerial, lastExit>>
    /\ UNCHANGED <<ratesVars, moreVars>>

\* ---- patch scopes ----

Patched(inst, paths, wrapper) == [p \in Paths |-> IF p \in paths THEN wrapper ELSE inst[p]]

Restored(inst, paths, saved) == [p \in Paths |-> IF p \in paths THEN saved[p] ELSE inst[p]]

ExitNeo4jWithoutFinally(how, inst, scope) ==
    IF scope.patched /\ how = "normal" THEN Restored(inst, Neo4jPaths, scope.saved) ELSE inst

\* patch_neo4j_calls, lines 376-382: the finally block runs however the body ends
ExitNeo4j(how, inst, scope) ==
    IF scope.patched THEN Restored(inst, Neo4jPaths, scope.saved) ELSE inst

\* tau2_collector.collect, lines 117-148: finally: restore()
ExitTau2(how, inst, scope) == Restored(inst, {LitellmCompletion}, scope.saved)

\* with patch_neo4j_calls(b_logger): entered by the mem0 and graphiti collectors
EnterPatchNeo4j ==
    /\ adapter \in {"mem0", "graphiti"}
    /\ Len(scopes) < MaxDepth
    /\ scopeSerial < MaxScopes
    /\ scopeSerial' = scopeSerial + 1
    /\ scopes' = <<[kind |-> "neo4j", patched |-> bLogger,
                    saved |-> [p \in Neo4jPaths |-> installed[p]],
                    atEntry |-> installed]>> \o scopes
    /\ installed' = IF bLogger THEN Patched(installed, Neo4jPaths, scopeSerial + 1)
                    ELSE installed
    /\ UNCHANGED <<adapter, bLogger, lastExit, traceFile, breakdown, calls, lmCalls, lastCall>>
    /\ UNCHANGED <<ratesVars, moreVars>>

ExitPatchNeo4j ==
    /\ scopes # <<>>
    /\ Head(scopes).kind = "neo4j"
    /\ \E how \in {"normal", "exception"} :
        /\ installed' = ExitNeo4j(how, installed, Head(scopes))
        /\ lastExit' = [kind |-> "neo4j", how |-> how, atEntry |-> Head(scopes).atEntry,
                        after |-> installed']
    /\ scopes' = Tail(scopes)
    /\ UNCHANGED <<adapter, bLogger, scopeSerial, traceFile, breakdown, calls, lmCalls, lastCall>>
    /\ UNCHANGED <<ratesVars, moreVars>>

\* tau2_collector.collect, line 115: restore = _patch_litellm(trace_logger)
EnterTau2Patch ==
    /\ adapter = "tau2"
    /\ Len(scopes) < MaxDepth
    /\ scopeSerial < MaxScopes
    /\ scopeSerial' = scopeSerial + 1
    /\ scopes' = <<[kind |-> "tau2", patched |-> TRUE,
                    saved |-> [p \in {LitellmCompletion} |-> installed[p]],
                    atEntry |-> installed]>> \o scopes
    /\ installed' = Patched(installed, {LitellmCompletion}, scopeSerial + 1)
    /\ UNCHANGED <<adapter, bLogger, lastExit, traceFile, breakdown, calls, lmCalls, lastCall>>
    /\ UNCHANGED <<ratesVars, moreVars>>

ExitTau2Patch ==
    /\ scopes # <<>>
    /\ Head(scopes).kind = "tau2"
    /\ \E how \in {"normal", "exception"} :
        /\ installed' = ExitTau2(how, installed, Head(scopes))
        /\ lastExit' = [kind |-> "tau2", how |-> how, atEntry |-> Head(scopes).atEntry,
                        after |-> installed']
    /\ scopes' = Tail(scopes)
    /\ UNCHANGED <<adapter, bLogger, scopeSerial, traceFile, breakdown, calls, lmCalls, lastCall>>
    /\ UNCHANGED <<ratesVars, moreVars>>

\* ---- storage calls made by the workload while the wrappers are installed ----

ReraiseWrapped(u) == ExcFrom("RuntimeError", u)

\* the bare raise that ends each wrapper's except block
Reraise(u) == u

\* traced_driver_execute_query and traced_async_driver_execute_query: the event
\* is built from the result and written by _log_query_event before the return;
\* capture tells whether building it raises
TracedQueryOutcome(log, c, u, capture) ==
    IF u.kind = "exception"
    THEN [log |-> LogEvent(log, "neo4j", "cypher_query", "error", c),
          out |-> "raised", outVal |-> Reraise(u), captureFailed |-> FALSE]
    ELSE IF capture = "raises"
    THEN [log |-> log, out |-> "raised", outVal |-> CaptureError, captureFailed |-> TRUE]
    ELSE [log |-> LogEvent(log, "neo4j", "cypher_query", "ok", c),
          out |-> "returned", outVal |-> u, captureFailed |-> FALSE]

\* traced_session_run and traced_async_session_run: the event of a successful
\* run holds only the result's type name
TracedRunOutcome(log, c, u, capture) ==
    IF u.kind = "exception"
    THEN [log |-> LogEvent(log, "neo4j", "cypher_query", "error", c),
          out |-> "raised", outVal |-> Reraise(u), captureFailed |-> FALSE]
    ELSE [log |-> LogEvent(log, "neo4j", "cypher_run", "ok", c),
          out |-> "returned", outVal |-> u, captureFailed |-> FALSE]

\* the collectors open one patch scope per run; the workload's storage calls
\* happen inside it
StorageCall ==
    /\ Len(scopes) = 1
    /\ calls < MaxCalls
    /\ \E path \in Neo4jPaths, u \in QueryResults \cup QueryErrors,
          args \in ArgLists, kwargs \in KwargSets, capture \in {"builds", "raises"} :
        LET c == calls + 1
            f == Forward(args, kwargs)
            o == IF path \in {DriverExecuteQuery, AsyncDriverExecuteQuery}
                 THEN TracedQueryOutcome(breakdown, c, u, capture)
                 ELSE TracedRunOutcome(breakdown, c, u, capture)
        IN
        /\ installed[path] # Original
        /\ calls' = c
        /\ breakdown' = o.log
        /\ lastCall' = [id |-> c, via |-> path, args |-> args, kwargs |-> kwargs,
                        fwdArgs |-> f.args, fwdKwargs |-> f.kwargs,
                        under |-> IF u.kind = "exception" THEN "raised" ELSE "returned",
                        underVal |-> u, out |-> o.out, outVal |-> o.outVal,
                        captureFailed |-> o.captureFailed]
    /\ UNCHANGED <<adapter, bLogger, installed, scopes, scopeSerial, lastExit, traceFile,
                   lmCalls>>
    /\ UNCHANGED <<ratesVars, moreVars>>

\* capture_db_snapshot, lines 400-463: the queries and the event sit in one try
\* whose except clause records the failure and returns
Snapshot(log, c, dbFails) ==
    [log |-> LogEvent(log, "neo4j", "db_snapshot", IF dbFails THEN "error" ELSE "ok", c),
     out |-> "returned", outVal |-> None]

\* capture_db_snapshot, called by the mem0 and graphiti collectors before and
\* after the patch scope
CaptureDbSnapshot ==
    /\ adapter \in {"mem0", "graphiti"}
    /\ scopes = <<>>
    /\ calls < MaxCalls
    /\ \E dbFails \in BOOLEAN :
        LET c == calls + 1
            o == IF bLogger THEN Snapshot(breakdown, c, dbFails)
                 ELSE [log |-> breakdown, out |-> "returned", outVal |-> None]
        IN
        /\ calls' = c
        /\ breakdown' = o.log
        /\ lastCall' = [NoCall EXCEPT !.id = c, !.via = "capture_db_snapshot",
                                      !.out = o.out, !.outVal = o.outVal,
                                      !.captureFailed = bLogger /\ dbFails]
    /\ UNCHANGED <<adapter, bLogger, installed, scopes, scopeSerial, lastExit, traceFile,
                   lmCalls>>
    /\ UNCHANGED <<ratesVars, moreVars>>

InitIntercept ==
    /\ phase = "done"
    /\ line = NoEntry
    /\ RatesInit
    /\ InterceptInit
    /\ MoreIdle

NextIntercept ==
    \/ OpenaiBaseItem
    \/ Mem0LlmCall
    \/ GraphitiGenerateResponse
    \/ Tau2TracedCompletion
    \/ EnterPatchNeo4j
    \/ ExitPatchNeo4j
    \/ EnterTau2Patch
    \/ ExitTau2Patch
    \/ StorageCall
    \/ CaptureDbSnapshot

SpecIntercept == InitIntercept /\ [][NextIntercept]_vars

(***************************************************************************)
(* Properties of the interception layer, checked under SpecIntercept.      *)
(***************************************************************************)
TraceRecordsOf(c) == {i \in 1 .. Len(traceFile) : traceFile[i].call = c}

EventsOf(c) == {i \in 1 .. Len(breakdown) : breakdown[i].call = c}

LlmEventsOf(c) ==
    {i \in EventsOf(c) : breakdown[i].component = "openai" /\ breakdown[i].op = "chat_completion"}

ErrorEventsOf(c) == {i \in EventsOf(c) : breakdown[i].status = "error"}

WrapperPaths == Neo4jPaths \cup {LitellmCompletion}

\* C1 as stated: every language-model call made through an adapter leaves
\* exactly one trace record and, with a breakdown logger, exactly one
\* openai/chat_completion event; no call leaves zero or more than one.
C1_EveryCallExactlyOnce ==
    \A k \in lmCalls :
        /\ Cardinality(TraceRecordsOf(k.id)) = 1
        /\ bLogger => Cardinality(LlmEventsOf(k.id)) = 1

\* C1 amended: a call that returns a usable response leaves exactly one trace
\* record and, with a breakdown logger, exactly one ok-status
\* openai/chat_completion event; a call that raises, or whose content graphiti
\* cannot decode, leaves no trace record and at most one event, of error
\* status; without a breakdown logger no event is written at all.
C1_ExactlyOncePerResponse ==
    \A k \in lmCalls :
        /\ k.fate = "response" =>
            /\ Cardinality(TraceRecordsOf(k.id)) = 1
            /\ bLogger => /\ Cardinality(LlmEventsOf(k.id)) = 1
                          /\ ErrorEventsOf(k.id) = {}
        /\ k.fate # "response" =>
            /\ TraceRecordsOf(k.id) = {}
            /\ Cardinality(LlmEventsOf(k.id)) <= 1
            /\ LlmEventsOf(k.id) \subseteq ErrorEventsOf(k.id)
            /\ (adapter = "openai_base" /\ bLogger) => Cardinality(LlmEventsOf(k.id)) = 1
        /\ ~bLogger => EventsOf(k.id) = {}

C1_Witness ==
    /\ bLogger
    /\ \E k, j \in lmCalls :
        /\ k.fate = "response"
        /\ j.fate = "raised"
        /\ Cardinality(TraceRecordsOf(k.id)) = 1
        /\ Cardinality(LlmEventsOf(j.id)) = 1

C4_OriginalsRestored ==
    /\ lastExit.kind # "none" => lastExit.after = lastExit.atEntry
    /\ scopes = <<>> => installed = [p \in Paths |-> Original]
    /\ scopes # <<>> =>
        \A p \in Paths : installed[p] = Original \/ installed[p] \in 1 .. scopeSerial

C4_Witness ==
    /\ lastExit.kind = "neo4j"
    /\ lastExit.how = "exception"
    /\ lastExit.atEntry[AsyncSessionRun] # Original
    /\ installed = lastExit.atEntry
    /\ Len(scopes) = 1

\* C5 as stated: when capturing the breakdown data of a storage query or a
\* database snapshot fails, the call it is attached to still returns (the
\* storage call returns its result) and the failure shows as an error-status
\* breakdown event.
C5_CaptureFailureContained ==
    lastCall.captureFailed =>
        /\ lastCall.out = "returned"
        /\ lastCall.via \in Neo4jPaths => lastCall.outVal = lastCall.underVal
        /\ ErrorEventsOf(lastCall.id) # {}

C5_Witness ==
    /\ lastCall.via = DriverExecuteQuery
    /\ lastCall.under = "returned"
    /\ lastCall.captureFailed
    /\ lastCall.out = "raised"
    /\ lastCall.outVal = CaptureError
    /\ EventsOf(lastCall.id) = {}

(***************************************************************************)
(* TraceLogger (common.py).  A text is a sequence of characters; "LF" is   *)
(* the line feed and "QUOTE" the double quote.  The file holds the         *)
(* characters json.dumps produced, every record followed by a raw "LF".    *)
(***************************************************************************)
StrVal(s) == [type |-> "str", s |-> s, n |-> 0]

IntVal(n) == [type |-> "int", s |-> <<>>, n |-> n]

JsonNull == [type |-> "null", s |-> <<>>, n |-> 0]

\* largest integer of a record
MaxNumber == 4

\* time.time() in microseconds, as read by log(); the clock is not followed
Timestamps == {1}

SessionIds == {"s1", "s2"}

InputTexts == {<<"a">>, <<"a", "LF", "a">>}

OutputTexts == {<<>>, <<"QUOTE", "a">>}

Pair(k, v) == [key |-> k, val |-> v]

\* the keyword arguments of one log() call, in the order given
MetadataChoices ==
    { <<>>,
      <<Pair("model", StrVal(<<"a">>)), Pair("prompt_tokens", IntVal(MaxNumber))>>,
      <<Pair("finish_reason", JsonNull), Pair("model", StrVal(<<"LF">>))>>,
      <<Pair("input", StrVal(<<"a", "a">>))>> }

HasKey(d, k) == \E i \in 1 .. Len(d) : d[i].key = k

DictGet(d, k) == d[CHOOSE i \in 1 .. Len(d) : d[i].key = k].val

\* d[k] = v on a dict: an existing key keeps its place and takes the new value
DictSet(d, k, v) ==
    IF HasKey(d, k)
    THEN [i \in 1 .. Len(d) |-> IF d[i].key = k THEN Pair(k, v) ELSE d[i]]
    ELSE Append(d, Pair(k, v))

RECURSIVE DictUpdate(_, _)
\* dict.update(m)
DictUpdate(d, m) ==
    IF m = <<>> THEN d ELSE DictUpdate(DictSet(d, Head(m).key, Head(m).val), Tail(m))

\* TraceLogger.log, lines 140-147: the entry that is serialized
Entry(ts, input_text, output_text, session_id, metadata) ==
    LET entry == << Pair("timestamp", IntVal(ts)), Pair("input", StrVal(input_text)),
                    Pair("output", StrVal(output_text)), Pair("session_id", StrVal(<<session_id>>)) >>
    IN IF metadata # <<>> THEN DictUpdate(entry, metadata) ELSE entry

EscapeNothing(c) == c

\* json.dumps writes a line feed or a quote inside a string as an escape
EscapeChar(c) == IF c = "LF" THEN "\\n" ELSE IF c = "QUOTE" THEN "\\\"" ELSE c

UnescapeChar(c) == IF c = "\\n" THEN "LF" ELSE IF c = "\\\"" THEN "QUOTE" ELSE c

DumpsValue(v) ==
    CASE v.type = "str" ->
            <<"QUOTE">> \o [i \in 1 .. Len(v.s) |-> EscapeChar(v.s[i])] \o <<"QUOTE">>
      [] v.type = "int" -> <<ToString(v.n)>>
      [] OTHER -> <<"null">>

RECURSIVE DumpsFields(_)
DumpsFields(d) ==
    IF d = <<>> THEN <<>>
    ELSE <<"QUOTE", Head(d).key, "QUOTE", ":">> \o DumpsValue(Head(d).val)
         \o (IF Len(d) > 1 THEN <<",">> ELSE <<>>) \o DumpsFields(Tail(d))

\* json.dumps(entry)
Dumps(d) == <<"{">> \o DumpsFields(d) \o <<"}">>

Invalid == [ok |-> FALSE, obj |-> <<>>]

RECURSIVE ReadString(_, _, _)
\* the characters of a string whose opening quote is just before position p
ReadString(t, p, acc) ==
    IF p > Len(t) THEN [ok |-> FALSE, val |-> StrVal(acc), next |-> p]
    ELSE IF t[p] = "QUOTE" THEN [ok |-> TRUE, val |-> StrVal(acc), next |-> p + 1]
    ELSE ReadString(t, p + 1, Append(acc, UnescapeChar(t[p])))

ReadValue(t, p) ==
    IF p > Len(t) THEN [ok |-> FALSE, val |-> JsonNull, next |-> p]
    ELSE IF t[p] = "QUOTE" THEN ReadString(t, p + 1, <<>>)
    ELSE IF t[p] = "null" THEN [ok |-> TRUE, val |-> JsonNull, next |-> p + 1]
    ELSE IF \E n \in 0 .. MaxNumber + 1 : ToString(n) = t[p]
    THEN [ok |-> TRUE, val |-> IntVal(CHOOSE n \in 0 .. MaxNumber + 1 : ToString(n) = t[p]),
          next |-> p + 1]
    ELSE [ok |-> FALSE, val |-> JsonNull, next |-> p]

RECURSIVE ReadFields(_, _, _)
ReadFields(t, p, acc) ==
    IF p + 3 > Len(t) \/ t[p] # "QUOTE" \/ t[p + 2] # "QUOTE" \/ t[p + 3] # ":" THEN Invalid
    ELSE LET v == ReadValue(t, p + 4) IN
         IF ~v.ok \/ v.next > Len(t) THEN Invalid
         ELSE IF t[v.next] = "}"
         THEN IF v.next = Len(t) THEN [ok |-> TRUE, obj |-> DictSet(acc, t[p + 1], v.val)]
              ELSE Invalid
         ELSE IF t[v.next] = ","
         THEN ReadFields(t, v.next + 1, DictSet(acc, t[p + 1], v.val))
         ELSE Invalid

\* json.loads(line)
Loads(t) ==
    IF Len(t) < 2 \/ t[1] # "{" THEN Invalid
    ELSE IF t[2] = "}" THEN (IF Len(t) = 2 THEN [ok |-> TRUE, obj |-> <<>>] ELSE Invalid)
    ELSE ReadFields(t, 2, <<>>)

RECURSIVE SplitLines(_)
\* read_text().splitlines(): the raw line feeds end the lines
SplitLines(text) ==
    IF text = <<>> THEN <<>>
    ELSE IF \E i \in 1 .. Len(text) : text[i] = "LF"
    THEN LET i == CHOOSE i \in 1 .. Len(text) :
                      text[i] = "LF" /\ \A j \in 1 .. i - 1 : text[j] # "LF"
         IN <<SubSeq(text, 1, i - 1)>> \o SplitLines(SubSeq(text, i + 1, Len(text)))
    ELSE <<text>>

\* open(self.output_path, "w"): the file is created, or emptied if it exists
OpenForWrite(content) == <<>>

FlushNothing(d, buf) == [disk |-> d, buffer |-> buf]

\* self._file.flush(): what was written reaches the file
Flush(d, buf) == [disk |-> d \o buf, buffer |-> <<>>]

\* where a crash between write() and flush() may cut what reaches the file
CrashCuts(data) == {0, 1, Len(data) \div 2, Len(data)}

\* TraceLogger.__init__, by the collection run that owns the path; a run
\* starts only when no other logger holds the path
OpenLogger ==
    /\ handle \in {"none", "closed", "lost"}
    /\ runs < MaxRuns
    /\ runs' = runs + 1
    /\ \E sid \in SessionIds : session' = sid
    /\ disk' = OpenForWrite(disk)
    /\ buffer' = <<>>
    /\ handle' = "open"
    /\ logged' = <<>>
    /\ crashed' = FALSE
    /\ UNCHANGED <<ratesVars, icVars, flVars, outVars, colVars, mxVars, lateVars>>

\* TraceLogger.log, from the call to its return
Log ==
    /\ handle = "open"
    /\ Len(logged) < MaxRecords
    /\ \E ts \in Timestamps, input_text \in InputTexts, output_text \in OutputTexts,
          metadata \in MetadataChoices :
        LET data == Dumps(Entry(ts, input_text, output_text, session, metadata)) \o <<"LF">>
            f == Flush(disk, buffer \o data)
        IN
        /\ disk' = f.disk
        /\ buffer' = f.buffer
        /\ logged' = Append(logged, [timestamp |-> ts, input |-> input_text,
                                     output |-> output_text, metadata |-> metadata])
    /\ UNCHANGED <<handle, session, crashed, runs>>
    /\ UNCHANGED <<ratesVars, icVars, flVars, outVars, colVars, mxVars, lateVars>>

\* the process dies inside log(), after write() and before flush() is done
CrashInLog ==
    /\ handle = "open"
    /\ Len(logged) < MaxRecords
    /\ \E ts \in Timestamps, input_text \in InputTexts, output_text \in OutputTexts,
          metadata \in MetadataChoices :
        LET data == buffer \o Dumps(Entry(ts, input_text, output_text, session, metadata))
                    \o <<"LF">>
        IN \E k \in CrashCuts(data) : disk' = disk \o SubSeq(data, 1, k)
    /\ buffer' = <<>>
    /\ handle' = "lost"
    /\ crashed' = TRUE
    /\ UNCHANGED <<session, logged, runs>>
    /\ UNCHANGED <<ratesVars, icVars, flVars, outVars, colVars, mxVars, lateVars>>

\* the process dies between two calls of log()
Crash ==
    /\ handle = "open"
    /\ buffer' = <<>>
    /\ handle' = "lost"
    /\ crashed' = TRUE
    /\ UNCHANGED <<disk, session, logged, runs>>
    /\ UNCHANGED <<ratesVars, icVars, flVars, outVars, colVars, mxVars, lateVars>>

\* TraceLogger.close
CloseLogger ==
    /\ handle = "open"
    /\ disk' = disk \o buffer
    /\ buffer' = <<>>
    /\ handle' = "closed"
    /\ UNCHANGED <<session, logged, crashed, runs>>
    /\ UNCHANGED <<ratesVars, icVars, flVars, outVars, colVars, mxVars, lateVars>>

InitTraceLogger ==
    /\ phase = "done"
    /\ line = NoEntry
    /\ RatesInit
    /\ InterceptIdle
    /\ MoreIdle

NextTraceLogger ==
    \/ OpenLogger
    \/ Log
    \/ CrashInLog
    \/ Crash
    \/ CloseLogger

SpecTraceLogger == InitTraceLogger /\ [][NextTraceLogger]_vars

(***************************************************************************)
(* Properties of the trace file, checked under SpecTraceLogger.            *)
(***************************************************************************)
IsPrefix(a, b) == Len(a) <= Len(b) /\ SubSeq(b, 1, Len(a)) = a

\* the complete lines of a file: those that end in a raw line feed
RecordsOn(d) ==
    LET lines == SplitLines(d)
    IN IF d # <<>> /\ d[Len(d)] # "LF" THEN SubSeq(lines, 1, Len(lines) - 1) ELSE lines

\* C11 as stated: whatever is done on a trace path, a later run opening it
\* included, the records already in the file stay a prefix of its content.
C11_RecordsStayPrefix == [][IsPrefix(RecordsOn(disk), RecordsOn(disk'))]_vars

C11_Witness ==
    /\ runs = 2
    /\ handle = "open"
    /\ logged = <<>>
    /\ disk = <<>>

LineMatches(obj, call, keys) ==
    /\ \A i \in 1 .. Len(call.metadata) :
        /\ HasKey(obj, call.metadata[i].key)
        /\ DictGet(obj, call.metadata[i].key) = call.metadata[i].val
    /\ \A k \in keys :
        /\ HasKey(obj, k)
        /\ DictGet(obj, k) = CASE k = "input" -> StrVal(call.input)
                               [] k = "output" -> StrVal(call.output)
                               [] k = "session_id" -> StrVal(<<session>>)
                               [] OTHER -> IntVal(call.timestamp)

MetadataKeys(call) == {call.metadata[i].key : i \in 1 .. Len(call.metadata)}

C13_FlushedOnReturn ==
    LET lines == RecordsOn(disk) IN
    /\ buffer = <<>>
    /\ Len(lines) >= Len(logged)
    /\ \A i \in 1 .. Len(logged) :
        /\ Loads(lines[i]).ok
        /\ Loads(lines[i]).obj = Entry(logged[i].timestamp, logged[i].input,
                                       logged[i].output, session, logged[i].metadata)
    /\ Len(SplitLines(disk)) <= Len(logged) + 1

C13_Witness ==
    /\ crashed
    /\ Len(logged) = 1
    /\ Len(RecordsOn(disk)) = 1
    /\ Len(SplitLines(disk)) = 2
    /\ ~Loads(SplitLines(disk)[2]).ok

(***************************************************************************)
(* Prompt flattening.  A text is a sequence of pieces; "LF" is the line    *)
(* feed, ": " and " " the separators the code inserts.                     *)
(***************************************************************************)
Adapters4 == {"openai_base", "mem0", "graphiti", "tau2"}

StrContent(t) == [kind |-> "str", text |-> t, blocks |-> <<>>]

NoneContent == [kind |-> "none", text |-> <<>>, blocks |-> <<>>]

ListContent(b) == [kind |-> "list", text |-> <<>>, blocks |-> b]

TextBlock(t) == [type |-> "text", payload |-> t]

ImageBlock == [type |-> "image_url", payload |-> "ignored"]

Roles == {"system", "user"}

Contents ==
    { StrContent(<<"You are helpful.">>), StrContent(<<>>), NoneContent,
      ListContent(<<TextBlock("First part.")>>),
      ListContent(<<TextBlock("First part."), ImageBlock, TextBlock("Second part.")>>),
      ListContent(<<ImageBlock>>) }

Message == [role : Roles, content : Contents]

MessageLists == UNION {[1 .. n -> Message] : n \in 0 .. MaxMessages}

\* test_messages_to_input_text_flattens_multimodal_content
ExampleMessages ==
    << [role |-> "system", content |-> StrContent(<<"You are helpful.">>)],
       [role |-> "user",
        content |-> ListContent(<<TextBlock("First part."), ImageBlock,
                                  TextBlock("Second part.")>>)] >>

RECURSIVE Join(_, _)
\* sep.join(parts)
Join(sep, parts) ==
    IF parts = <<>> THEN <<>>
    ELSE IF Len(parts) = 1 THEN Head(parts)
    ELSE Head(parts) \o <<sep>> \o Join(sep, Tail(parts))

\* repr() of one content block, as an f-string renders a list that holds it
ReprBlock(b) ==
    <<"{'type': '", b.type, "', '", IF b.type = "text" THEN "text" ELSE "image_url",
      "': '", b.payload, "'}">>

\* what f"{content}" renders
Format(content) ==
    CASE content.kind = "str" -> content.text
      [] content.kind = "none" -> <<"None">>
      [] OTHER -> <<"[">> \o Join(", ", [i \in 1 .. Len(content.blocks) |->
                                             ReprBlock(content.blocks[i])]) \o <<"]">>

RECURSIVE TextPartsOfAllBlocks(_)
TextPartsOfAllBlocks(blocks) ==
    IF blocks = <<>> THEN <<>>
    ELSE <<<<Head(blocks).payload>>>> \o TextPartsOfAllBlocks(Tail(blocks))

RECURSIVE TextParts(_)
\* [c.get("text", "") for c in content if c.get("type") == "text"]
TextParts(blocks) ==
    IF blocks = <<>> THEN <<>>
    ELSE (IF Head(blocks).type = "text" THEN <<<<Head(blocks).payload>>>> ELSE <<>>)
         \o TextParts(Tail(blocks))

\* common.messages_to_input_text, used by the mem0 callback
messages_to_input_text(msgs) ==
    Join("LF", [i \in 1 .. Len(msgs) |->
        <<msgs[i].role, ": ">>
        \o (IF msgs[i].content.kind = "list"
            THEN Join(" ", TextParts(msgs[i].content.blocks))
            ELSE Format(msgs[i].content))])

\* openai_base_collector._messages_to_input_text
OpenaiBaseInputText(msgs) ==
    Join("LF", [i \in 1 .. Len(msgs) |-> <<msgs[i].role, ": ">> \o Format(msgs[i].content)])

\* Python truth value of a content
Truthy(content) ==
    \/ content.kind = "str" /\ content.text # <<>>
    \/ content.kind = "list" /\ content.blocks # <<>>

\* tau2 traced_completion, lines 48-53: content = msg.get("content", "") or ""
Tau2InputText(msgs) ==
    Join("LF", [i \in 1 .. Len(msgs) |->
        <<msgs[i].role, ": ">>
        \o (IF Truthy(msgs[i].content) THEN Format(msgs[i].content) ELSE <<>>)])

\* graphiti _generate_response, lines 96-99, over Message objects whose
\* content is a string
GraphitiInputText(msgs) ==
    Join("LF", [i \in 1 .. Len(msgs) |-> <<msgs[i].role, ": ">> \o Format(msgs[i].content)])

Flattened(text) == [set |-> TRUE, text |-> text, call_type |-> "none"]

Mem0Flatten ==
    /\ ~inputText["mem0"].set
    /\ inputText' = [inputText EXCEPT !["mem0"] = Flattened(messages_to_input_text(messages))]
    /\ UNCHANGED <<messages, ratesVars, icVars, tlVars, outVars, colVars, mxVars, lateVars>>

OpenaiBaseFlatten ==
    /\ ~inputText["openai_base"].set
    /\ inputText' = [inputText EXCEPT
                        !["openai_base"] = Flattened(OpenaiBaseInputText(messages))]
    /\ UNCHANGED <<messages, ratesVars, icVars, tlVars, outVars, colVars, mxVars, lateVars>>

Tau2Flatten ==
    /\ ~inputText["tau2"].set
    /\ inputText' = [inputText EXCEPT !["tau2"] = Flattened(Tau2InputText(messages))]
    /\ UNCHANGED <<messages, ratesVars, icVars, tlVars, outVars, colVars, mxVars, lateVars>>

GraphitiFlatten ==
    /\ ~inputText["graphiti"].set
    /\ \A i \in 1 .. Len(messages) : messages[i].content.kind = "str"
    /\ inputText' = [inputText EXCEPT !["graphiti"] = Flattened(GraphitiInputText(messages))]
    /\ UNCHANGED <<messages, ratesVars, icVars, tlVars, outVars, colVars, mxVars, lateVars>>

InitFlatten ==
    /\ phase = "done"
    /\ line = NoEntry
    /\ RatesInit
    /\ InterceptIdle
    /\ TraceLoggerIdle
    /\ OutputIdle
    /\ CollectIdle
    /\ MatrixIdle
    /\ LateIdle
    /\ messages \in MessageLists \cup {ExampleMessages}
    /\ inputText = [a \in Adapters4 |-> Unset]

NextFlatten ==
    \/ Mem0Flatten
    \/ OpenaiBaseFlatten
    \/ Tau2Flatten
    \/ GraphitiFlatten

SpecFlatten == InitFlatten /\ [][NextFlatten]_vars

\* C14 as stated: whatever the message list, the adapters that have flattened
\* it recorded the same input text.
C14_OneFlatteningRule ==
    \A a, b \in Adapters4 :
        (inputText[a].set /\ inputText[b].set) => inputText[a].text = inputText[b].text

C14_Witness ==
    /\ messages = <<[role |-> "user", content |-> NoneContent]>>
    /\ inputText["mem0"] = Flattened(<<"user", ": ", "None">>)
    /\ inputText["tau2"] = Flattened(<<"user", ": ">>)

TextIndices(blocks) == {j \in 1 .. Len(blocks) : blocks[j].type = "text"}

\* the k-th text block of a content list
NthTextBlock(blocks, k) ==
    blocks[CHOOSE j \in TextIndices(blocks) :
               Cardinality({x \in TextIndices(blocks) : x < j}) = k - 1]

\* C15: messages_to_input_text gives one 'role: content' entry per message,
\* in message order, separated by line feeds; the content of a message given
\* as a list of blocks is the texts of its blocks of type text, in block
\* order, and nothing of any other block.
C15_OneEntryPerMessage ==
    inputText["mem0"].set =>
        LET entries == SplitLines(inputText["mem0"].text) IN
        /\ Len(entries) = Len(messages)
        /\ \A i \in 1 .. Len(messages) :
            LET e == entries[i]
                body == SubSeq(e, 3, Len(e))
                c == messages[i].content
                n == Cardinality(TextIndices(c.blocks))
            IN
            /\ Len(e) >= 2
            /\ e[1] = messages[i].role
            /\ e[2] = ": "
            /\ c.kind = "str" => body = c.text
            /\ c.kind = "list" =>
                /\ Len(body) = IF n = 0 THEN 0 ELSE 2 * n - 1
                /\ \A k \in 1 .. n : body[2 * k - 1] = NthTextBlock(c.blocks, k).payload
                /\ \A k \in 1 .. n - 1 : body[2 * k] = " "
                /\ \A p \in 1 .. Len(body) : body[p] # ImageBlock.payload

C15_Witness ==
    /\ messages = ExampleMessages
    /\ inputText["mem0"] =
          Flattened(<<"system", ": ", "You are helpful.", "LF",
                      "user", ": ", "First part.", " ", "Second part.">>)

(***************************************************************************)
(* Output extraction from the first choice of a response.                  *)
(***************************************************************************)
ToolCall == [name : {"search", "add"}, arguments : {"{\"q\": 1}"}]

ToolCallLists == UNION {[1 .. n -> ToolCall] : n \in 0 .. MaxToolCalls}

ResponseMessages ==
    [content : {NoneContent, StrContent(<<>>), StrContent(<<"ok">>)},
     tool_calls : ToolCallLists]

\* json.dumps({"name": tc.function.name, "arguments": tc.function.arguments})
SerializeToolCall(tc) == <<"{\"name\": ", tc.name, ", \"arguments\": ", tc.arguments, "}">>

ToolOutputsFirstOnly(tcs) == <<SerializeToolCall(tcs[1])>>

\* the loop over choice.tool_calls that fills tool_outputs
ToolOutputs(tcs) == [i \in 1 .. Len(tcs) |-> SerializeToolCall(tcs[i])]

\* mem0 callback, lines 47-60
Mem0OutputOf(msg) ==
    IF msg.tool_calls # <<>>
    THEN [set |-> TRUE, text |-> Join("LF", ToolOutputs(msg.tool_calls)),
          call_type |-> msg.tool_calls[1].name]
    ELSE IF Truthy(msg.content)
    THEN [set |-> TRUE, text |-> msg.content.text, call_type |-> "none"]
    ELSE [set |-> TRUE, text |-> <<>>, call_type |-> "none"]

\* tau2 traced_completion, lines 59-72
Tau2OutputOf(msg) ==
    IF msg.tool_calls # <<>>
    THEN [set |-> TRUE, text |-> Join("LF", ToolOutputs(msg.tool_calls)),
          call_type |-> msg.tool_calls[1].name]
    ELSE IF Truthy(msg.content)
    THEN [set |-> TRUE, text |-> msg.content.text, call_type |-> "none"]
    ELSE [set |-> TRUE, text |-> <<>>, call_type |-> "none"]

\* openai_base collect, lines 94-99; its metadata carries no call_type
OpenaiBaseOutputOf(msg) ==
    LET fromContent == IF Truthy(msg.content) THEN msg.content.text ELSE <<>>
    IN [set |-> TRUE,
        text |-> IF msg.tool_calls # <<>> THEN Join("LF", ToolOutputs(msg.tool_calls))
                 ELSE fromContent,
        call_type |-> "none"]

Mem0Output ==
    /\ ~outputText["mem0"].set
    /\ outputText' = [outputText EXCEPT !["mem0"] = Mem0OutputOf(response)]
    /\ UNCHANGED <<response, ratesVars, icVars, tlVars, flVars, colVars, mxVars, lateVars>>

Tau2Output ==
    /\ ~outputText["tau2"].set
    /\ outputText' = [outputText EXCEPT !["tau2"] = Tau2OutputOf(response)]
    /\ UNCHANGED <<response, ratesVars, icVars, tlVars, flVars, colVars, mxVars, lateVars>>

OpenaiBaseOutput ==
    /\ ~outputText["openai_base"].set
    /\ outputText' = [outputText EXCEPT !["openai_base"] = OpenaiBaseOutputOf(response)]
    /\ UNCHANGED <<response, ratesVars, icVars, tlVars, flVars, colVars, mxVars, lateVars>>

InitOutput ==
    /\ phase = "done"
    /\ line = NoEntry
    /\ RatesInit
    /\ InterceptIdle
    /\ TraceLoggerIdle
    /\ FlattenIdle
    /\ CollectIdle
    /\ MatrixIdle
    /\ LateIdle
    /\ response \in ResponseMessages
    /\ outputText = [a \in {"openai_base", "mem0", "tau2"} |-> Unset]

NextOutput ==
    \/ Mem0Output
    \/ Tau2Output
    \/ OpenaiBaseOutput

SpecOutput == InitOutput /\ [][NextOutput]_vars

ItemOutcomes == {"ok", "Exception", "BaseException"}

ItemErrorAlwaysPropagates(outcome) == "propagate"

\* except Exception as e: ... continue
ItemErrorHandling(outcome) == IF outcome = "Exception" THEN "continue" ELSE "propagate"

Attempt(i, outcome) == [item |-> i, outcome |-> outcome]

\* openai_base_collector.collect, lines 67-132: one turn of the loop
OpenaiBaseCollectItem ==
    /\ adapter = "openai_base"
    /\ collectStatus = "running"
    /\ Len(attempts) < items
    /\ \E outcome \in ItemOutcomes :
        LET i == Len(attempts) + 1 IN
        /\ attempts' = Append(attempts, Attempt(i, outcome))
        /\ IF outcome = "ok"
           THEN /\ traceFile' = TraceLog(traceFile, i)
                /\ breakdown' = LogIfEnabled(breakdown, "openai", "chat_completion", "ok", i)
                /\ UNCHANGED collectStatus
           ELSE IF ItemErrorHandling(outcome) = "continue"
           THEN /\ breakdown' = LogIfEnabled(breakdown, "openai", "chat_completion", "error", i)
                /\ UNCHANGED <<traceFile, collectStatus>>
           ELSE /\ collectStatus' = "aborted"
                /\ UNCHANGED <<traceFile, breakdown>>
    /\ UNCHANGED <<adapter, bLogger, installed, scopes, scopeSerial, lastExit, calls, lmCalls,
                   lastCall, items>>
    /\ UNCHANGED <<ratesVars, tlVars, flVars, outVars, mxVars, lateVars>>

\* mem0_collector.collect, lines 175-200: one turn of the loop around m.add
Mem0CollectItem ==
    /\ adapter = "mem0"
    /\ collectStatus = "running"
    /\ Len(attempts) < items
    /\ \E outcome \in ItemOutcomes :
        LET i == Len(attempts) + 1 IN
        /\ attempts' = Append(attempts, Attempt(i, outcome))
        /\ IF outcome = "ok"
           THEN /\ breakdown' = LogIfEnabled(breakdown, "mem0", "add", "ok", i)
                /\ UNCHANGED collectStatus
           ELSE IF ItemErrorHandling(outcome) = "continue"
           THEN /\ breakdown' = LogIfEnabled(breakdown, "mem0", "add", "error", i)
                /\ UNCHANGED collectStatus
           ELSE /\ collectStatus' = "aborted"
                /\ UNCHANGED breakdown
    /\ UNCHANGED <<adapter, bLogger, installed, scopes, scopeSerial, lastExit, traceFile, calls,
                   lmCalls, lastCall, items>>
    /\ UNCHANGED <<ratesVars, tlVars, flVars, outVars, mxVars, lateVars>>

\* graphiti_collector._collect_async, lines 270-301: one turn of the loop
\* around graphiti.add_episode
GraphitiCollectItem ==
    /\ adapter = "graphiti"
    /\ collectStatus = "running"
    /\ Len(attempts) < items
    /\ \E outcome \in ItemOutcomes :
        LET i == Len(attempts) + 1 IN
        /\ attempts' = Append(attempts, Attempt(i, outcome))
        /\ IF outcome = "ok"
           THEN /\ breakdown' = LogIfEnabled(breakdown, "graphiti", "add_episode", "ok", i)
                /\ UNCHANGED collectStatus
           ELSE IF ItemErrorHandling(outcome) = "continue"
           THEN /\ breakdown' = LogIfEnabled(breakdown, "graphiti", "add_episode", "error", i)
                /\ UNCHANGED collectStatus
           ELSE /\ collectStatus' = "aborted"
                /\ UNCHANGED breakdown
    /\ UNCHANGED <<adapter, bLogger, installed, scopes, scopeSerial, lastExit, traceFile, calls,
                   lmCalls, lastCall, items>>
    /\ UNCHANGED <<ratesVars, tlVars, flVars, outVars, mxVars, lateVars>>

\* the loop is exhausted: the finish event is logged and collect() returns
\* the path
CollectReturn ==
    /\ collectStatus = "running"
    /\ Len(attempts) = items
    /\ collectStatus' = "returned"
    /\ breakdown' = LogIfEnabled(breakdown, "collector", "finish", "ok", 0)
    /\ UNCHANGED <<adapter, bLogger, installed, scopes, scopeSerial, lastExit, traceFile, calls,
                   lmCalls, lastCall, items, attempts>>
    /\ UNCHANGED <<ratesVars, tlVars, flVars, outVars, mxVars, lateVars>>

InitCollect ==
    /\ phase = "done"
    /\ line = NoEntry
    /\ RatesInit
    /\ InterceptInit
    /\ adapter # "tau2"
    /\ TraceLoggerIdle
    /\ FlattenIdle
    /\ OutputIdle
    /\ MatrixIdle
    /\ LateIdle
    /\ items \in 0 .. MaxItems
    /\ attempts = <<>>
    /\ collectStatus = "running"

NextCollect ==
    \/ OpenaiBaseCollectItem
    \/ Mem0CollectItem
    \/ GraphitiCollectItem
    \/ CollectReturn

SpecCollect == InitCollect /\ [][NextCollect]_vars

\* C17: an item whose call raises an upstream error is logged and skipped and
\* the loop goes on: the items are attempted once each, in order; collect()
\* returns only after the last item, however many items failed, and it never
\* ends early except on an interrupt of the process.
C17_FailedItemsAreSkipped ==
    /\ \A k \in 1 .. Len(attempts) : attempts[k].item = k
    /\ Len(attempts) <= items
    /\ \A k \in 1 .. Len(attempts) - 1 : attempts[k].outcome # "BaseException"
    /\ collectStatus = "aborted" => attempts[Len(attempts)].outcome = "BaseException"
    /\ collectStatus = "returned" =>
        /\ Len(attempts) = items
        /\ \A k \in 1 .. items : attempts[k].outcome # "BaseException"
    /\ \A k \in 1 .. Len(attempts) :
        attempts[k].outcome = "Exception" =>
            /\ TraceRecordsOf(k) = {}
            /\ bLogger => Cardinality(ErrorEventsOf(k)) = 1

C17_Witness ==
    /\ collectStatus = "returned"
    /\ items = 3
    /\ attempts[1].outcome = "Exception"
    /\ attempts[2].outcome = "ok"
    /\ attempts[3].outcome = "Exception"
    /\ bLogger

(***************************************************************************)
(* The orchestrators.  run_matrix.main walks the selected datasets and,    *)
(* for each, the selected baselines; run_all.main walks the selected       *)
(* systems.  The state of a trace or breakdown file is "absent", "empty",  *)
(* "old" (written by an earlier run) or "new" (written by this run); the   *)
(* file system is not under the program's control, so what a cell finds on *)
(* disk is drawn when the cell is reached.                                 *)
(***************************************************************************)

\* datasets.py, lines 11-17
DATASET_CHOICES == <<"corpus50", "tau2_airline", "tau2_retail", "tau2_telecom", "taubench_legacy">>

\* the datasets followed: the first MaxDatasets of the choices
DatasetsFollowed == SubSeq(DATASET_CHOICES, 1, MaxDatasets)

\* run_matrix.py, line 13
BASELINE_CHOICES == <<"openai_base", "mem0", "graphiti">>

\* run_all.py, line 17
SYSTEMS == <<"openai_base", "mem0", "graphiti", "tau2_telecom", "tau2_airline", "tau2_retail">>

\* X if args.x == "all" else [args.x]
Selections(choices) == {choices} \cup {<<choices[k]>> : k \in 1 .. Len(choices)}

MatrixArgs ==
    {[tool |-> "run_matrix", datasets |-> ds, baselines |-> bs, systems |-> <<>>,
      skip_existing |-> se, with_breakdown |-> wb] :
        ds \in Selections(DatasetsFollowed), bs \in Selections(BASELINE_CHOICES),
        se \in BOOLEAN, wb \in BOOLEAN}

RunAllArgs ==
    {[tool |-> "run_all", datasets |-> <<>>, baselines |-> <<>>, systems |-> ss,
      skip_existing |-> FALSE, with_breakdown |-> FALSE] :
        ss \in {SYSTEMS, <<"mem0">>, <<"tau2_telecom">>}}

LoaderOutcomes == {"rows", "Exception", "BaseException"}

RunnerOutcomes == {"ok", "Exception", "BaseException"}

TraceFileStates == {"absent", "empty", "old"}

BreakdownFileStates == {"absent", "old"}

Row(dataset, baseline, status, error) ==
    [dataset |-> dataset, baseline |-> baseline, status |-> status, error |-> error]

Cell(dataset, baseline) == [dataset |-> dataset, baseline |-> baseline]

\* run_matrix.py, lines 143-155: one error row per selected baseline
LoadFailedRows(dataset, baselines) ==
    [k \in 1 .. Len(baselines) |-> Row(dataset, baselines[k], "error", "dataset load failed")]

AfterLoadFailureStop(d, n) == n + 1

\* run_matrix.py, line 156: continue with the next dataset
AfterLoadFailure(d, n) == d + 1

ShouldSkipNonEmpty(skip_existing, trace) == skip_existing /\ trace \notin {"absent", "empty"}

\* run_matrix.py, line 173: args.skip_existing and output_path.exists()
ShouldSkip(skip_existing, trace) == skip_existing /\ trace # "absent"

ExitCodeCountsSkipped(rs) == IF \E k \in 1 .. Len(rs) : rs[k].status # "ok" THEN "1" ELSE "0"

\* run_matrix.py, lines 250-251, and run_all.py, lines 102-103
ExitCode(rs) == IF \E k \in 1 .. Len(rs) : rs[k].status = "error" THEN "1" ELSE "0"

SkipNextBaseline(d, b) ==
    IF b + 1 < Len(cliArgs.baselines) THEN [d |-> d, b |-> b + 2] ELSE [d |-> d + 1, b |-> 0]

\* run_matrix.py, lines 140 and 160: the two for loops; the cursor after the
\* cell at baseline b of dataset d
NextCursor(d, b) ==
    IF b < Len(cliArgs.baselines) THEN [d |-> d, b |-> b + 1] ELSE [d |-> d + 1, b |-> 0]

\* run_matrix.py, lines 140-156: the loader of the next dataset is called
LoadDataset ==
    /\ cliArgs.tool = "run_matrix"
    /\ exitCode = "running"
    /\ cursor.d <= Len(cliArgs.datasets)
    /\ cursor.b = 0
    /\ \E outcome \in LoaderOutcomes :
        LET dataset == cliArgs.datasets[cursor.d] IN
        CASE outcome = "rows" ->
                /\ cursor' = [d |-> cursor.d, b |-> 1]
                /\ UNCHANGED <<results, loadFailed, lastCell, exitCode>>
          [] outcome = "Exception" ->
                /\ results' = results \o LoadFailedRows(dataset, cliArgs.baselines)
                /\ loadFailed' = loadFailed \cup {dataset}
                /\ lastCell' = [NoCell EXCEPT !.dataset = dataset, !.how = "load_error"]
                /\ cursor' = [d |-> AfterLoadFailure(cursor.d, Len(cliArgs.datasets)), b |-> 0]
                /\ UNCHANGED exitCode
          [] outcome = "BaseException" ->
                /\ exitCode' = "interrupted"
                /\ lastCell' = [NoCell EXCEPT !.dataset = dataset, !.how = "BaseException"]
                /\ UNCHANGED <<results, loadFailed, cursor>>
    /\ UNCHANGED <<cliArgs, invoked, summaryPrinted>>
    /\ UNCHANGED <<ratesVars, icVars, tlVars, flVars, outVars, colVars, lateVars>>

\* what the runner of a cell leaves on disk: collect() opens the trace file
\* for writing, and the breakdown file when a breakdown path is given; a
\* runner that raises may have raised before or after opening them
FilesAfterRun(outcome, opened, trace, bdown) ==
    IF outcome = "ok" \/ opened
    THEN [trace |-> "new", breakdown |-> IF cliArgs.with_breakdown THEN "new" ELSE bdown]
    ELSE [trace |-> trace, breakdown |-> bdown]

\* run_matrix.py, lines 160-229: one cell of the matrix
RunCell ==
    /\ cliArgs.tool = "run_matrix"
    /\ exitCode = "running"
    /\ cursor.d <= Len(cliArgs.datasets)
    /\ cursor.b >= 1
    /\ \E trace \in TraceFileStates, bdown \in BreakdownFileStates :
        LET dataset == cliArgs.datasets[cursor.d]
            baseline == cliArgs.baselines[cursor.b]
            found == [NoCell EXCEPT !.dataset = dataset, !.baseline = baseline,
                                    !.traceBefore = trace, !.traceAfter = trace,
                                    !.breakdownBefore = bdown, !.breakdownAfter = bdown]
        IN
        IF ShouldSkip(cliArgs.skip_existing, trace)
        THEN /\ results' = Append(results, Row(dataset, baseline, "skipped", ""))
             /\ lastCell' = [found EXCEPT !.how = "skipped"]
             /\ cursor' = NextCursor(cursor.d, cursor.b)
             /\ UNCHANGED <<invoked, exitCode>>
        ELSE \E outcome \in RunnerOutcomes, opened \in BOOLEAN :
             LET after == FilesAfterRun(outcome, opened, trace, bdown) IN
             /\ outcome = "ok" => opened
             /\ invoked' = Append(invoked, Cell(dataset, baseline))
             /\ lastCell' = [found EXCEPT !.how = outcome, !.traceAfter = after.trace,
                                          !.breakdownAfter = after.breakdown]
             /\ CASE outcome = "ok" ->
                        /\ results' = Append(results, Row(dataset, baseline, "ok", ""))
                        /\ cursor' = NextCursor(cursor.d, cursor.b)
                        /\ UNCHANGED exitCode
                  [] outcome = "Exception" ->
                        /\ results' = Append(results, Row(dataset, baseline, "error", "collector failed"))
                        /\ cursor' = NextCursor(cursor.d, cursor.b)
                        /\ UNCHANGED exitCode
                  [] outcome = "BaseException" ->
                        /\ exitCode' = "interrupted"
                        /\ UNCHANGED <<results, cursor>>
    /\ UNCHANGED <<cliArgs, loadFailed, summaryPrinted>>
    /\ UNCHANGED <<ratesVars, icVars, tlVars, flVars, outVars, colVars, lateVars>>

\* run_matrix.py, lines 232-251: the summary is printed and the process exits
FinishMatrix ==
    /\ cliArgs.tool = "run_matrix"
    /\ exitCode = "running"
    /\ cursor.d > Len(cliArgs.datasets)
    /\ summaryPrinted' = TRUE
    /\ exitCode' = ExitCode(results)
    /\ UNCHANGED <<cliArgs, cursor, results, invoked, loadFailed, lastCell>>
    /\ UNCHANGED <<ratesVars, icVars, tlVars, flVars, outVars, colVars, lateVars>>

\* run_all.py, lines 80-91: the collector of the next system is called
RunSystem ==
    /\ cliArgs.tool = "run_all"
    /\ exitCode = "running"
    /\ cursor.b <= Len(cliArgs.systems)
    /\ \E outcome \in RunnerOutcomes :
        LET system == cliArgs.systems[cursor.b] IN
        /\ invoked' = Append(invoked, Cell("none", system))
        /\ lastCell' = [NoCell EXCEPT !.baseline = system, !.how = outcome]
        /\ CASE outcome = "ok" ->
                   /\ results' = Append(results, Row("none", system, "ok", ""))
                   /\ cursor' = [cursor EXCEPT !.b = @ + 1]
                   /\ UNCHANGED exitCode
             [] outcome = "Exception" ->
                   /\ results' = Append(results, Row("none", system, "error", "collector failed"))
                   /\ cursor' = [cursor EXCEPT !.b = @ + 1]
                   /\ UNCHANGED exitCode
             [] outcome = "BaseException" ->
                   /\ exitCode' = "interrupted"
                   /\ UNCHANGED <<results, cursor>>
    /\ UNCHANGED <<cliArgs, loadFailed, summaryPrinted>>
    /\ UNCHANGED <<ratesVars, icVars, tlVars, flVars, outVars, colVars, lateVars>>

\* run_all.py, lines 93-103: the summary is printed and the process exits
FinishAll ==
    /\ cliArgs.tool = "run_all"
    /\ exitCode = "running"
    /\ cursor.b > Len(cliArgs.systems)
    /\ summaryPrinted' = TRUE
    /\ exitCode' = ExitCode(results)
    /\ UNCHANGED <<cliArgs, cursor, results, invoked, loadFailed, lastCell>>
    /\ UNCHANGED <<ratesVars, icVars, tlVars, flVars, outVars, colVars, lateVars>>

InitMatrix ==
    /\ phase = "done"
    /\ line = NoEntry
    /\ RatesInit
    /\ InterceptIdle
    /\ TraceLoggerIdle
    /\ FlattenIdle
    /\ OutputIdle
    /\ CollectIdle
    /\ LateIdle
    /\ cliArgs \in MatrixArgs \cup RunAllArgs
    /\ cursor = IF cliArgs.tool = "run_matrix" THEN [d |-> 1, b |-> 0] ELSE [d |-> 0, b |-> 1]
    /\ results = <<>>
    /\ invoked = <<>>
    /\ loadFailed = {}
    /\ lastCell = NoCell
    /\ exitCode = "running"
    /\ summaryPrinted = FALSE

NextMatrix ==
    \/ LoadDataset
    \/ RunCell
    \/ FinishMatrix
    \/ RunSystem
    \/ FinishAll

SpecMatrix == InitMatrix /\ [][NextMatrix]_vars

\* the cells the command line selects, in the order of the loops
SelectedCells ==
    IF cliArgs.tool = "run_matrix"
    THEN [k \in 1 .. Len(cliArgs.datasets) * Len(cliArgs.baselines) |->
            Cell(cliArgs.datasets[((k - 1) \div Len(cliArgs.baselines)) + 1],
                 cliArgs.baselines[((k - 1) % Len(cliArgs.baselines)) + 1])]
    ELSE [k \in 1 .. Len(cliArgs.systems) |-> Cell("none", cliArgs.systems[k])]

RowsOf(dataset, baseline) ==
    {k \in 1 .. Len(results) : results[k].dataset = dataset /\ results[k].baseline = baseline}

WasInvoked(dataset, baseline) ==
    \E k \in 1 .. Len(invoked) : invoked[k] = Cell(dataset, baseline)

Exited == exitCode \in {"0", "1"}

\* C18: when the loader of a dataset raises, every selected baseline gets one
\* row for that dataset with status error and the load failure as its
\* message, no collector is called for that dataset, and the run goes on:
\* when it exits, every selected dataset has its rows.
C18_LoadFailureMarksEveryBaseline ==
    /\ \A dataset \in loadFailed :
        \A b \in 1 .. Len(cliArgs.baselines) :
            /\ Cardinality(RowsOf(dataset, cliArgs.baselines[b])) = 1
            /\ \A k \in RowsOf(dataset, cliArgs.baselines[b]) :
                /\ results[k].status = "error"
                /\ results[k].error = "dataset load failed"
            /\ ~WasInvoked(dataset, cliArgs.baselines[b])
    /\ (Exited /\ cliArgs.tool = "run_matrix") =>
        \A d \in 1 .. Len(cliArgs.datasets) :
            \A b \in 1 .. Len(cliArgs.baselines) :
                RowsOf(cliArgs.datasets[d], cliArgs.baselines[b]) # {}

C18_Witness ==
    /\ Exited
    /\ cliArgs.baselines = BASELINE_CHOICES
    /\ Len(cliArgs.datasets) = 2
    /\ loadFailed = {cliArgs.datasets[1]}
    /\ WasInvoked(cliArgs.datasets[2], "graphiti")

\* C19: the rows recorded so far are those of the first cells in loop order,
\* one row per cell, so a failed cell never keeps a later cell from its turn;
\* the process exits by itself only after every selected cell has its row and
\* the summary is printed, and then with a non-zero code exactly when some
\* row has status error; nothing but an interrupt ends the run earlier.
C19_FailuresNeverStopTheRun ==
    /\ Len(results) <= Len(SelectedCells)
    /\ \A k \in 1 .. Len(results) :
        Cell(results[k].dataset, results[k].baseline) = SelectedCells[k]
    /\ Exited =>
        /\ Len(results) = Len(SelectedCells)
        /\ summaryPrinted
        /\ exitCode = "1" <=> \E k \in 1 .. Len(results) : results[k].status = "error"
    /\ ~Exited => ~summaryPrinted
    /\ exitCode = "interrupted" => lastCell.how = "BaseException"

C19_Witness ==
    /\ exitCode = "1"
    /\ cliArgs.tool = "run_matrix"
    /\ Len(results) = 6
    /\ results[1].status = "error" /\ results[1].error = "collector failed"
    /\ results[2].status = "ok"
    /\ results[3].status = "skipped"
    /\ results[6].status = "ok"

C37_OneRowPerSelectedCell ==
    cliArgs.tool = "run_matrix" =>
        /\ Exited =>
            /\ Len(results) = Len(cliArgs.datasets) * Len(cliArgs.baselines)
            /\ \A d \in 1 .. Len(cliArgs.datasets) : \A b \in 1 .. Len(cliArgs.baselines) :
                   LET row == results[(d - 1) * Len(cliArgs.baselines) + b] IN
                   /\ row.dataset = cliArgs.datasets[d]
                   /\ row.baseline = cliArgs.baselines[b]
                   /\ Cardinality(RowsOf(row.dataset, row.baseline)) = 1
                   /\ row.status \in {"ok", "skipped", "error"}
                   /\ row.status = "ok" => WasInvoked(row.dataset, row.baseline)
        /\ (exitCode = "running" /\ results # <<>> /\ results[Len(results)].status = "ok") =>
            /\ lastCell.how = "ok"
            /\ lastCell.dataset = results[Len(results)].dataset
            /\ lastCell.baseline = results[Len(results)].baseline
            /\ invoked # <<>>
            /\ invoked[Len(invoked)] = Cell(lastCell.dataset, lastCell.baseline)

C37_Witness ==
    /\ Exited
    /\ cliArgs.tool = "run_matrix"
    /\ Len(cliArgs.datasets) = 2 /\ Len(cliArgs.baselines) = 3
    /\ results[1].status = "ok"
    /\ results[2].status = "skipped"
    /\ results[3].status = "error"
    /\ results[4].error = "dataset load failed"
    /\ Len(invoked) = 2

(***************************************************************************)
(* The analysis drivers.  analyze_matrix.main walks the selected cells and *)
(* analyze.main the selected systems; each cell looks for its trace file,  *)
(* counts its lines and runs prefix_analysis.py in a subprocess.  The      *)
(* drivers use the command line, cursor, result table and exit code of the *)
(* orchestrators; invoked lists the cells whose subprocess was started.    *)
(***************************************************************************)

\* analyze.py, line 21
ANALYZE_SYSTEMS == <<"mem0", "graphiti", "tau2_telecom", "tau2_airline", "tau2_retail">>

\* the datasets the analysis is followed over: the first MaxAnalyzedDatasets
AnalyzedDatasets == SubSeq(DATASET_CHOICES, 1, MaxAnalyzedDatasets)

AnalyzeMatrixArgs ==
    {[tool |-> "analyze_matrix", datasets |-> ds, baselines |-> bs, systems |-> <<>>,
      skip_existing |-> FALSE, with_breakdown |-> FALSE] :
        ds \in Selections(AnalyzedDatasets), bs \in Selections(BASELINE_CHOICES)}

AnalyzeArgs ==
    {[tool |-> "analyze", datasets |-> <<>>, baselines |-> <<>>, systems |-> ss,
      skip_existing |-> FALSE, with_breakdown |-> FALSE] :
        ss \in Selections(ANALYZE_SYSTEMS)}

\* what a cell finds at its trace path
TraceFindings == {"missing", "empty", "lines"}

\* how subprocess.run ends: exit status 0, another exit status, TimeoutExpired
SubprocessOutcomes == {"0", "nonzero", "timeout"}

\* analyze_matrix.py, lines 57-111: the status recorded for a cell
CellStatus(finding, outcome) ==
    CASE finding = "missing" -> "missing"
      [] finding = "empty" -> "empty"
      [] outcome = "timeout" -> "timeout"
      [] outcome = "0" -> "ok"
      [] OTHER -> "error"

\* analyze_matrix.py, lines 117-119
AnalyzeMatrixExitCode(rs) ==
    IF \E k \in 1 .. Len(rs) : rs[k].status \in {"error", "timeout"} THEN "1" ELSE "0"

\* analyze.py, lines 112-115: not any(results.values())
AnalyzeExitCode(rs) ==
    IF ~ \E k \in 1 .. Len(rs) : rs[k].status = "ok" THEN "1" ELSE "0"

\* analyze_matrix.py, lines 56-111: one cell
AnalyzeCell ==
    /\ cliArgs.tool = "analyze_matrix"
    /\ exitCode = "running"
    /\ cursor.d <= Len(cliArgs.datasets)
    /\ \E finding \in TraceFindings, outcome \in SubprocessOutcomes :
        LET dataset == cliArgs.datasets[cursor.d]
            baseline == cliArgs.baselines[cursor.b]
            status == CellStatus(finding, outcome)
        IN
        /\ finding # "lines" => outcome = "0"
        /\ invoked' = IF finding = "lines" THEN Append(invoked, Cell(dataset, baseline))
                                           ELSE invoked
        /\ results' = Append(results, Row(dataset, baseline, status,
                                          IF status = "error" THEN "stderr tail" ELSE ""))
        /\ cursor' = IF cursor.b < Len(cliArgs.baselines)
                     THEN [d |-> cursor.d, b |-> cursor.b + 1]
                     ELSE [d |-> cursor.d + 1, b |-> 1]
    /\ UNCHANGED <<cliArgs, loadFailed, lastCell, exitCode, summaryPrinted>>
    /\ UNCHANGED <<ratesVars, icVars, tlVars, flVars, outVars, colVars, lateVars>>

\* analyze_matrix.py, lines 113-119
FinishAnalyzeMatrix ==
    /\ cliArgs.tool = "analyze_matrix"
    /\ exitCode = "running"
    /\ cursor.d > Len(cliArgs.datasets)
    /\ summaryPrinted' = TRUE
    /\ exitCode' = AnalyzeMatrixExitCode(results)
    /\ UNCHANGED <<cliArgs, cursor, results, invoked, loadFailed, lastCell>>
    /\ UNCHANGED <<ratesVars, icVars, tlVars, flVars, outVars, colVars, lateVars>>

\* analyze.py, lines 100-104 with analyze_system, lines 32-82: one system;
\* the row keeps why analyze_system returned False
AnalyzeSystem ==
    /\ cliArgs.tool = "analyze"
    /\ exitCode = "running"
    /\ cursor.b <= Len(cliArgs.systems)
    /\ \E finding \in TraceFindings, outcome \in SubprocessOutcomes :
        LET system == cliArgs.systems[cursor.b] IN
        /\ finding # "lines" => outcome = "0"
        /\ invoked' = IF finding = "lines" THEN Append(invoked, Cell("none", system))
                                           ELSE invoked
        /\ results' = Append(results, Row("none", system, CellStatus(finding, outcome), ""))
        /\ cursor' = [cursor EXCEPT !.b = @ + 1]
    /\ UNCHANGED <<cliArgs, loadFailed, lastCell, exitCode, summaryPrinted>>
    /\ UNCHANGED <<ratesVars, icVars, tlVars, flVars, outVars, colVars, lateVars>>

\* analyze.py, lines 106-115
FinishAnalyze ==
    /\ cliArgs.tool = "analyze"
    /\ exitCode = "running"
    /\ cursor.b > Len(cliArgs.systems)
    /\ summaryPrinted' = TRUE
    /\ exitCode' = AnalyzeExitCode(results)
    /\ UNCHANGED <<cliArgs, cursor, results, invoked, loadFailed, lastCell>>
    /\ UNCHANGED <<ratesVars, icVars, tlVars, flVars, outVars, colVars, lateVars>>

InitAnalyze ==
    /\ phase = "done"
    /\ line = NoEntry
    /\ RatesInit
    /\ InterceptIdle
    /\ TraceLoggerIdle
    /\ FlattenIdle
    /\ OutputIdle
    /\ CollectIdle
    /\ LateIdle
    /\ cliArgs \in AnalyzeMatrixArgs \cup AnalyzeArgs
    /\ cursor = IF cliArgs.tool = "analyze_matrix" THEN [d |-> 1, b |-> 1] ELSE [d |-> 0, b |-> 1]
    /\ results = <<>>
    /\ invoked = <<>>
    /\ loadFailed = {}
    /\ lastCell = NoCell
    /\ exitCode = "running"
    /\ summaryPrinted = FALSE

NextAnalyze ==
    \/ AnalyzeCell
    \/ FinishAnalyzeMatrix
    \/ AnalyzeSystem
    \/ FinishAnalyze

SpecAnalyze == InitAnalyze /\ [][NextAnalyze]_vars

\* the cells an analysis driver selects, in the order of its loops
AnalyzedCells ==
    IF cliArgs.tool = "analyze_matrix"
    THEN [k \in 1 .. Len(cliArgs.datasets) * Len(cliArgs.baselines) |->
            Cell(cliArgs.datasets[((k - 1) \div Len(cliArgs.baselines)) + 1],
                 cliArgs.baselines[((k - 1) % Len(cliArgs.baselines)) + 1])]
    ELSE [k \in 1 .. Len(cliArgs.systems) |-> Cell("none", cliArgs.systems[k])]

\* C21: every selected cell gets its row whatever happened to earlier cells,
\* a cell whose subprocess exits non-zero or times out is recorded as failed,
\* and the driver exits 0 exactly when no cell errored or timed out: missing
\* and empty traces alone never make the exit code non-zero.
C21_AnalyzeExitReflectsFailures ==
    /\ Len(results) <= Len(AnalyzedCells)
    /\ \A k \in 1 .. Len(results) :
        Cell(results[k].dataset, results[k].baseline) = AnalyzedCells[k]
    /\ Exited =>
        /\ Len(results) = Len(AnalyzedCells)
        /\ exitCode = "0" <=>
            ~ \E k \in 1 .. Len(results) : results[k].status \in {"error", "timeout"}

\* analyze.main exits 0 although one system's subprocess failed
C21_Witness ==
    /\ cliArgs.tool = "analyze"
    /\ exitCode = "0"
    /\ Len(results) = 5
    /\ results[1].status = "error"
    /\ results[2].status = "ok"

(***************************************************************************)
(* matrix_report.main.  For every pair of the matrix the report looks for  *)
(* the pair's trace, match and breakdown files, at the matrix paths and,   *)
(* for five pairs, at the paths of the earlier single-system layout.  The  *)
(* files on disk are drawn when the pair is reached; their contents are    *)
(* well formed, and the metrics computed from them are those of            *)
(* _compute_rates and _compute_breakdown_metrics.                          *)
(***************************************************************************)

\* matrix_report.py, lines 31-42 and 45-56: the pairs that have legacy paths
HasLegacyPath(baseline, dataset) ==
    \/ dataset = "corpus50" /\ baseline \in {"mem0", "graphiti"}
    \/ baseline = "openai_base" /\ dataset \in {"tau2_airline", "tau2_retail", "tau2_telecom"}

\* the files a pair may find on disk
FilesOnDisk(baseline, dataset) ==
    {[trace |-> t, legacy_trace |-> lt, matches |-> m, legacy_matches |-> lm, breakdown |-> b] :
        t \in BOOLEAN, m \in BOOLEAN, b \in BOOLEAN,
        lt \in IF HasLegacyPath(baseline, dataset) THEN BOOLEAN ELSE {FALSE},
        lm \in IF HasLegacyPath(baseline, dataset) THEN BOOLEAN ELSE {FALSE}}

\* matrix_report.py, lines 305-309: the first candidate that exists, else
\* the first candidate; trace_file.exists() is then asked of the chosen one
TraceFileExists(files) == files.trace \/ files.legacy_trace

\* matrix_report.py, lines 311-315
MatchesFileExists(files) == files.matches \/ files.legacy_matches

StatusIgnoringMatches(files) == IF TraceFileExists(files) THEN "analyzed" ELSE "not_collected"

\* matrix_report.py, lines 333-370
MatrixStatus(files) ==
    IF ~TraceFileExists(files) THEN "not_collected"
    ELSE IF ~MatchesFileExists(files) THEN "collected_not_analyzed"
    ELSE "analyzed"

\* matrix_report.py, lines 317-331, with lines 235 and 258-260
BreakdownStatus(files) == IF files.breakdown THEN "analyzed" ELSE "not_collected"

ReportRow(dataset, baseline, status) ==
    [dataset |-> dataset, baseline |-> baseline, status |-> status]

\* the matrix the report walks: the datasets followed and every baseline
ReportPairs ==
    [k \in 1 .. Len(AnalyzedDatasets) * Len(BASELINE_CHOICES) |->
        Cell(AnalyzedDatasets[((k - 1) \div Len(BASELINE_CHOICES)) + 1],
             BASELINE_CHOICES[((k - 1) % Len(BASELINE_CHOICES)) + 1])]

\* matrix_report.py, lines 303-370: one pair of the loop
ReportPair ==
    /\ ~report.written
    /\ Len(rows) < Len(ReportPairs)
    /\ LET pair == ReportPairs[Len(rows) + 1] IN
       \E files \in FilesOnDisk(pair.baseline, pair.dataset) :
        /\ lastSeen' = files
        /\ breakdown_rows' = Append(breakdown_rows,
                ReportRow(pair.dataset, pair.baseline, BreakdownStatus(files)))
        /\ rows' = Append(rows, ReportRow(pair.dataset, pair.baseline, MatrixStatus(files)))
    /\ UNCHANGED report
    /\ UNCHANGED <<ratesVars, icVars, tlVars, flVars, outVars, colVars, mxVars, bdVars, agVars, pcVars, cyVars, dsVars, lcVars, ovVars, cmVars>>

\* matrix_report.py, lines 372-505: one table line per row, then write_text
WriteReport ==
    /\ ~report.written
    /\ Len(rows) = Len(ReportPairs)
    /\ report' = [written |-> TRUE, matrix_status |-> rows,
                  workload_breakdown |-> breakdown_rows]
    /\ UNCHANGED <<rows, breakdown_rows, lastSeen>>
    /\ UNCHANGED <<ratesVars, icVars, tlVars, flVars, outVars, colVars, mxVars, bdVars, agVars, pcVars, cyVars, dsVars, lcVars, ovVars, cmVars>>

InitReport ==
    /\ phase = "done"
    /\ line = NoEntry
    /\ RatesInit
    /\ InterceptIdle
    /\ TraceLoggerIdle
    /\ FlattenIdle
    /\ OutputIdle
    /\ CollectIdle
    /\ MatrixIdle
    /\ ReportIdle
    /\ BreakdownIdle
    /\ AggregateIdle
    /\ PercentileIdle
    /\ CypherIdle
    /\ DatasetIdle
    /\ LifecycleIdle
    /\ OverlapIdle
    /\ CompareIdle

NextReport ==
    \/ ReportPair
    \/ WriteReport

SpecReport == InitReport /\ [][NextReport]_vars

RowsOfPair(table, pair) ==
    {k \in 1 .. Len(table) : table[k].dataset = pair.dataset /\ table[k].baseline = pair.baseline}

RunStamps == {1, 2}

Callers == {"run_matrix --with-breakdown", "run_matrix", "run_all"}

\* run_matrix.py, lines 162-172, for the cell mem0 x corpus50
BreakdownContext(caller, stamp) ==
    IF caller = "run_matrix --with-breakdown"
    THEN << Pair("run_id", [type |-> "str", s |-> <<"matrix_", "mem0_corpus50">>, n |-> stamp]),
            Pair("dataset", StrVal(<<"corpus50">>)),
            Pair("baseline", StrVal(<<"mem0">>)),
            Pair("matrix_key", StrVal(<<"mem0_corpus50">>)) >>
    ELSE <<>>

\* mem0_collector.py, lines 114-120: session_id, collector, **(breakdown_context or {})
LoggerContext(breakdown_context) ==
    DictUpdate(<< Pair("session_id", StrVal(<<"mem0_corpus50">>)),
                  Pair("collector", StrVal(<<"mem0">>)) >>, breakdown_context)

\* the log_event calls of a collection: component, op and op-specific fields
EventCalls ==
    { [component |-> "collector", op |-> "start", fields |-> <<Pair("item_count", IntVal(1))>>],
      [component |-> "mem0", op |-> "add", fields |-> <<Pair("item_index", IntVal(1))>>],
      [component |-> "neo4j", op |-> "db_snapshot",
       fields |-> <<Pair("stage", StrVal(<<"before_collection">>))>>],
      [component |-> "collector", op |-> "finish", fields |-> <<>>] }

\* neo4j_metrics.py, lines 153-160: the payload of one event
Payload(context, call) ==
    DictUpdate(DictUpdate(<< Pair("timestamp_us", IntVal(1)),
                             Pair("component", StrVal(<<call.component>>)),
                             Pair("op", StrVal(<<call.op>>)),
                             Pair("status", StrVal(<<"ok">>)) >>, context), call.fields)

WriteFirst(file, event) == <<event>> \o file

\* neo4j_metrics.py, lines 163-164: write the line, flush
WriteLine(file, event) == Append(file, event)

\* a collector is called on the cell: with a breakdown path the logger is
\* constructed (neo4j_metrics.py, lines 139-143), which opens the file for
\* writing; without one no logger exists and the file is not touched
StartCollection ==
    /\ ~bdLogger.open
    /\ bdRuns < MaxRuns
    /\ bdRuns' = bdRuns + 1
    /\ \E caller \in Callers, stamp \in RunStamps :
        IF caller = "run_matrix --with-breakdown"
        THEN /\ bdLogger' = [open |-> TRUE,
                             context |-> LoggerContext(BreakdownContext(caller, stamp))]
             /\ bdFile' = OpenForWrite(bdFile)
             /\ bdCalls' = <<>>
        ELSE UNCHANGED <<bdLogger, bdFile, bdCalls>>
    /\ UNCHANGED <<ratesVars, icVars, tlVars, flVars, outVars, colVars, mxVars, rpVars, agVars, pcVars, cyVars, dsVars, lcVars, ovVars, cmVars>>

\* BreakdownLogger.log_event, lines 145-164
BreakdownLogEvent ==
    /\ bdLogger.open
    /\ Len(bdCalls) < MaxEvents
    /\ \E call \in EventCalls :
        /\ bdFile' = WriteLine(bdFile, Payload(bdLogger.context, call))
        /\ bdCalls' = Append(bdCalls, call)
    /\ UNCHANGED <<bdLogger, bdRuns>>
    /\ UNCHANGED <<ratesVars, icVars, tlVars, flVars, outVars, colVars, mxVars, rpVars, agVars, pcVars, cyVars, dsVars, lcVars, ovVars, cmVars>>

\* BreakdownLogger.close, at the end of the collection
CloseBreakdownLogger ==
    /\ bdLogger.open
    /\ bdLogger' = NoLogger
    /\ UNCHANGED <<bdFile, bdCalls, bdRuns>>
    /\ UNCHANGED <<ratesVars, icVars, tlVars, flVars, outVars, colVars, mxVars, rpVars, agVars, pcVars, cyVars, dsVars, lcVars, ovVars, cmVars>>

InitBreakdown ==
    /\ phase = "done"
    /\ line = NoEntry
    /\ RatesInit
    /\ InterceptIdle
    /\ TraceLoggerIdle
    /\ FlattenIdle
    /\ OutputIdle
    /\ CollectIdle
    /\ MatrixIdle
    /\ ReportIdle
    /\ BreakdownIdle
    /\ AggregateIdle
    /\ PercentileIdle
    /\ CypherIdle
    /\ DatasetIdle
    /\ LifecycleIdle
    /\ OverlapIdle
    /\ CompareIdle

NextBreakdown ==
    \/ StartCollection
    \/ BreakdownLogEvent
    \/ CloseBreakdownLogger

SpecBreakdown == InitBreakdown /\ [][NextBreakdown]_vars

\* the events of the file carry one and the same run identifier and stand
\* in the order of the log_event calls that wrote them
OneRunInCallOrder ==
    /\ \A k \in 1 .. Len(bdFile) :
        /\ \E i \in 1 .. Len(bdFile[k]) : bdFile[k][i].key = "run_id"
        /\ \A i \in 1 .. Len(bdFile[k]), j \in 1 .. Len(bdFile[1]) :
            (bdFile[k][i].key = "run_id" /\ bdFile[1][j].key = "run_id")
                => bdFile[k][i].val = bdFile[1][j].val
    /\ Len(bdFile) = Len(bdCalls)
    /\ \A k \in 1 .. Len(bdFile) :
        \A i \in 1 .. Len(bdFile[k]) :
            /\ bdFile[k][i].key = "component" => bdFile[k][i].val.s = <<bdCalls[k].component>>
            /\ bdFile[k][i].key = "op" => bdFile[k][i].val.s = <<bdCalls[k].op>>

Counts(n, r, np, rp) ==
    [node_count |-> n, relationship_count |-> r,
     node_property_chars |-> np, relationship_property_chars |-> rp]

ZeroCounts == Counts(0, 0, 0, 0)

\* the counts of the two snapshots of tests/test_matrix_tools.py, lines 112-133
CountChoices == {Counts(5, 4, 100, 50), Counts(9, 11, 140, 90)}

SnapshotEvent(stage, has_counts, counts) ==
    [component |-> "neo4j", op |-> "db_snapshot", stage |-> stage,
     has_counts |-> has_counts, counts |-> counts,
     has_duration |-> FALSE, duration_ms |-> 0, query_hash |-> "unknown"]

QueryEvent(has_duration, duration_ms, query_hash) ==
    [component |-> "neo4j", op |-> "cypher_query", stage |-> "unknown",
     has_counts |-> FALSE, counts |-> ZeroCounts,
     has_duration |-> has_duration, duration_ms |-> duration_ms, query_hash |-> query_hash]

\* a model-call event: mem0_collector.py, lines 82-85, graphiti_collector.py,
\* lines 158-162, openai_base_collector.py, lines 117-123
PromptEvent(prompt_hash) ==
    [component |-> "openai", op |-> "chat_completion", stage |-> "unknown",
     has_counts |-> FALSE, counts |-> ZeroCounts,
     has_duration |-> FALSE, duration_ms |-> 0, query_hash |-> "unknown",
     prompt_hash |-> prompt_hash]

SnapshotEvents ==
    {SnapshotEvent(stage, TRUE, c) : stage \in {"before_collection", "after_collection"},
                                     c \in CountChoices}
    \cup {SnapshotEvent("before_collection", FALSE, ZeroCounts)}

\* the durations of the test's two queries
QueryEvents == {QueryEvent(TRUE, 10, "q1"), QueryEvent(TRUE, 30, "q1")}

RECURSIVE SeqsUpTo(_, _)
\* the sequences over a set of at most n elements
SeqsUpTo(S, n) ==
    IF n = 0 THEN {<<>>}
    ELSE LET shorter == SeqsUpTo(S, n - 1) IN
         shorter \cup {Append(q, x) : q \in {t \in shorter : Len(t) = n - 1}, x \in S}

IsSnapshot(e) == e.component = "neo4j" /\ e.op = "db_snapshot"

RECURSIVE Snapshots(_, _)
\* matrix_report.py, lines 143 and 203-205: snapshots[stage] = event, so the
\* last event of a stage stays
Snapshots(events, acc) ==
    IF events = <<>> THEN acc
    ELSE LET e == Head(events) IN
         Snapshots(Tail(events),
                   IF IsSnapshot(e) THEN [acc EXCEPT ![e.stage] = [present |-> TRUE, event |-> e]]
                                    ELSE acc)

NoSnapshots ==
    [stage \in {"before_collection", "after_collection"} |->
        [present |-> FALSE, event |-> SnapshotEvent(stage, FALSE, ZeroCounts)]]

\* int(snapshots.get(stage, {}).get(field, 0) or 0)
CountOrZero(snaps, stage, field) ==
    IF snaps[stage].present /\ snaps[stage].event.has_counts
    THEN snaps[stage].event.counts[field] ELSE 0

\* matrix_report.py, lines 221-232
Delta(snaps, field) ==
    CountOrZero(snaps, "after_collection", field) - CountOrZero(snaps, "before_collection", field)

RECURSIVE InsertSorted(_, _)
InsertSorted(x, sorted) ==
    IF sorted = <<>> THEN <<x>>
    ELSE IF x < Head(sorted) THEN <<x>> \o sorted
    ELSE <<Head(sorted)>> \o InsertSorted(x, Tail(sorted))

Unsorted(values) == values

RECURSIVE Sorted(_)
\* sorted(values); the sort is stable and the values are numbers
Sorted(values) ==
    IF values = <<>> THEN <<>>
    ELSE InsertSorted(values[Len(values)], Sorted(SubSeq(values, 1, Len(values) - 1)))

\* max(0.0, min(1.0, p)), with p in hundredths
Clamp(p100) == IF p100 < 0 THEN 0 ELSE IF p100 > 100 THEN 100 ELSE p100

\* matrix_report.py, lines 115-127: _percentile(values, p), with p and the
\* result in hundredths, which is exact for whole durations: the rank is
\* p100 * (n - 1) / 100, its floor is lo and its fractional part the weight
Percentile100(values, p100) ==
    IF values = <<>> THEN 0
    ELSE LET sorted_values == Sorted(values)
             n == Len(sorted_values)
             rank100 == Clamp(p100) * (n - 1)
             lo == rank100 \div 100
             weight100 == rank100 % 100
             hi == IF weight100 = 0 THEN lo ELSE lo + 1
         IN
         IF n = 1 THEN 100 * sorted_values[1]
         ELSE IF lo = hi THEN 100 * sorted_values[lo + 1]
         ELSE sorted_values[lo + 1] * (100 - weight100) + sorted_values[hi + 1] * weight100

RECURSIVE DurationsOf(_)
\* matrix_report.py, lines 167-171: the durations of the query events
DurationsOf(events) ==
    IF events = <<>> THEN <<>>
    ELSE LET e == Head(events) IN
         (IF e.component = "neo4j" /\ e.op \in {"cypher_query", "cypher_run"} /\ e.has_duration
          THEN <<e.duration_ms>> ELSE <<>>) \o DurationsOf(Tail(events))

IsQuery(e) == e.component = "neo4j" /\ e.op \in {"cypher_query", "cypher_run"}

RECURSIVE GroupCounts(_, _)
\* matrix_report.py, lines 188-199: top_queries.setdefault(qhash, ...) and
\* count += 1; a dict keeps its keys in the order of first insertion
GroupCounts(events, acc) ==
    IF events = <<>> THEN acc
    ELSE LET e == Head(events) IN
         IF ~IsQuery(e) THEN GroupCounts(Tail(events), acc)
         ELSE IF \E i \in 1 .. Len(acc) : acc[i].query_hash = e.query_hash
         THEN GroupCounts(Tail(events),
                [i \in 1 .. Len(acc) |->
                    IF acc[i].query_hash = e.query_hash
                    THEN [acc[i] EXCEPT !.count = @ + 1] ELSE acc[i]])
         ELSE GroupCounts(Tail(events), Append(acc, [query_hash |-> e.query_hash, count |-> 1]))

RECURSIVE InsertByCount(_, _)
InsertByCount(x, sorted) ==
    IF sorted = <<>> THEN <<x>>
    ELSE IF x.count > Head(sorted).count THEN <<x>> \o sorted
    ELSE <<Head(sorted)>> \o InsertByCount(x, Tail(sorted))

KeepOrder(groups) == groups

RECURSIVE SortByCount(_)
\* sorted(..., key=count, reverse=True): stable, so equal counts keep their order
SortByCount(groups) ==
    IF groups = <<>> THEN <<>>
    ELSE InsertByCount(groups[Len(groups)], SortByCount(SubSeq(groups, 1, Len(groups) - 1)))

\* matrix_report.py, lines 207-218: the three most frequent query hashes
TopQueries(events) ==
    LET sorted == SortByCount(GroupCounts(events, <<>>)) IN
    SubSeq(sorted, 1, IF Len(sorted) < 3 THEN Len(sorted) ELSE 3)

IsPrompt(e) == e.component = "openai" /\ e.op = "chat_completion"

RECURSIVE PromptGroupCounts(_, _)
\* matrix_report.py, lines 151-165: top_prompts.setdefault(phash, ...) and
\* count += 1
PromptGroupCounts(events, acc) ==
    IF events = <<>> THEN acc
    ELSE LET e == Head(events) IN
         IF ~IsPrompt(e) THEN PromptGroupCounts(Tail(events), acc)
         ELSE IF \E i \in 1 .. Len(acc) : acc[i].prompt_hash = e.prompt_hash
         THEN PromptGroupCounts(Tail(events),
                [i \in 1 .. Len(acc) |->
                    IF acc[i].prompt_hash = e.prompt_hash
                    THEN [acc[i] EXCEPT !.count = @ + 1] ELSE acc[i]])
         ELSE PromptGroupCounts(Tail(events),
                                Append(acc, [prompt_hash |-> e.prompt_hash, count |-> 1]))

\* matrix_report.py, line 219: the three most frequent prompt hashes
TopPrompts(events) ==
    LET sorted == SortByCount(PromptGroupCounts(events, <<>>)) IN
    SubSeq(sorted, 1, IF Len(sorted) < 3 THEN Len(sorted) ELSE 3)

\* matrix_report.py, lines 150-151 and 167-168: prompt_events and query_events
CountWhere(events, kind) ==
    Cardinality({k \in 1 .. Len(events) :
                    IF kind = "prompt" THEN IsPrompt(events[k]) ELSE IsQuery(events[k])})

\* matrix_report.py, lines 130-255: the metrics of a stream; the percentiles
\* are in hundredths of a millisecond
BreakdownMetrics(events) ==
    LET snaps == Snapshots(events, NoSnapshots) IN
    [status |-> "analyzed",
     events |-> Len(events),
     neo4j_queries |-> CountWhere(events, "query"),
     prompt_calls |-> CountWhere(events, "prompt"),
     top_queries |-> TopQueries(events),
     top_prompts |-> TopPrompts(events),
     query_p50_ms |-> Percentile100(DurationsOf(events), 50),
     query_p95_ms |-> Percentile100(DurationsOf(events), 95),
     node_delta |-> Delta(snaps, "node_count"),
     relationship_delta |-> Delta(snaps, "relationship_count"),
     node_prop_chars_delta |-> Delta(snaps, "node_property_chars"),
     relationship_prop_chars_delta |-> Delta(snaps, "relationship_property_chars")]

ComputeBreakdownMetrics ==
    /\ metrics = NoMetrics
    /\ metrics' = BreakdownMetrics(stream)
    /\ UNCHANGED stream
    /\ UNCHANGED <<ratesVars, icVars, tlVars, flVars, outVars, colVars, mxVars, rpVars, bdVars, pcVars, cyVars, dsVars, lcVars, ovVars, cmVars>>

InitAggregate ==
    /\ phase = "done"
    /\ line = NoEntry
    /\ RatesInit
    /\ InterceptIdle
    /\ TraceLoggerIdle
    /\ FlattenIdle
    /\ OutputIdle
    /\ CollectIdle
    /\ MatrixIdle
    /\ ReportIdle
    /\ BreakdownIdle
    /\ PercentileIdle
    /\ CypherIdle
    /\ DatasetIdle
    /\ LifecycleIdle
    /\ OverlapIdle
    /\ CompareIdle
    /\ stream \in SeqsUpTo(SnapshotEvents \cup QueryEvents, MaxEvents)
    /\ metrics = NoMetrics

NextAggregate == ComputeBreakdownMetrics

SpecAggregate == InitAggregate /\ [][NextAggregate]_vars

\* the snapshot events of a stage in the stream
StageEvents(stage) ==
    {k \in 1 .. Len(stream) : IsSnapshot(stream[k]) /\ stream[k].stage = stage}

LastOf(S) == CHOOSE k \in S : \A j \in S : j <= k

DeltaFields ==
    << <<"node_delta", "node_count">>, <<"relationship_delta", "relationship_count">>,
       <<"node_prop_chars_delta", "node_property_chars">>,
       <<"relationship_prop_chars_delta", "relationship_property_chars">> >>

\* C24: each delta is the count of the after_collection snapshot minus the
\* count of the before_collection snapshot, and when the stream has no
\* snapshot event of one of the two stages the deltas are zero.
C24_DeltasDefaultToZero ==
    metrics # NoMetrics =>
        \A f \in 1 .. Len(DeltaFields) :
            LET before == StageEvents("before_collection")
                after == StageEvents("after_collection")
            IN
            /\ (before = {} \/ after = {}) => metrics[DeltaFields[f][1]] = 0
            /\ (before # {} /\ after # {}
                    /\ stream[LastOf(before)].has_counts /\ stream[LastOf(after)].has_counts) =>
                metrics[DeltaFields[f][1]] =
                    stream[LastOf(after)].counts[DeltaFields[f][2]]
                    - stream[LastOf(before)].counts[DeltaFields[f][2]]

\* only the after_collection snapshot is in the stream: the node delta is its
\* node count
C24_Witness ==
    /\ stream = <<SnapshotEvent("after_collection", TRUE, Counts(9, 11, 140, 90))>>
    /\ metrics # NoMetrics
    /\ metrics.node_delta = 9

(***************************************************************************)
(* matrix_report._percentile, asked of one duration list at several p.     *)
(***************************************************************************)

\* whole durations in milliseconds; 10 and 30 are the test's
DurationChoices == {10, 30, 12}

\* p in hundredths; the report asks for 0.5 and 0.95, and values outside
\* [0, 1] are clamped
PChoices == {-50, 0, 50, 95, 100, 150}

AskPercentile ==
    /\ \E p100 \in PChoices :
        /\ \A c \in percentiles : c.p100 # p100
        /\ percentiles' = percentiles \cup
                {[p100 |-> p100, result100 |-> Percentile100(durations, p100)]}
    /\ UNCHANGED durations
    /\ UNCHANGED <<ratesVars, icVars, tlVars, flVars, outVars, colVars, mxVars, rpVars, bdVars,
                   agVars, cyVars, dsVars, lcVars, ovVars, cmVars>>

InitPercentile ==
    /\ phase = "done"
    /\ line = NoEntry
    /\ RatesInit
    /\ InterceptIdle
    /\ TraceLoggerIdle
    /\ FlattenIdle
    /\ OutputIdle
    /\ CollectIdle
    /\ MatrixIdle
    /\ ReportIdle
    /\ BreakdownIdle
    /\ AggregateIdle
    /\ CypherIdle
    /\ DatasetIdle
    /\ LifecycleIdle
    /\ OverlapIdle
    /\ CompareIdle
    /\ durations \in SeqsUpTo(DurationChoices, MaxEvents)
    /\ percentiles = {}

NextPercentile == AskPercentile

SpecPercentile == InitPercentile /\ [][NextPercentile]_vars

DurationSet == {durations[k] : k \in 1 .. Len(durations)}

\* C25: the percentile is 0 for an empty list and the value itself for a list
\* of one; it lies between the smallest and the largest duration; of two
\* calls on the same list the one with the smaller p never gives the larger
\* result; and for the durations 10 and 30, in either order, p50 is 20 and
\* p95 is 29.  Results are in hundredths.
C25_PercentileInterpolates ==
    /\ \A c \in percentiles :
        /\ durations = <<>> => c.result100 = 0
        /\ Len(durations) = 1 => c.result100 = 100 * durations[1]
        /\ \A lowest \in DurationSet, highest \in DurationSet :
            ((\A x \in DurationSet : lowest <= x /\ x <= highest)
                => (100 * lowest <= c.result100 /\ c.result100 <= 100 * highest))
        /\ (Len(durations) = 2 /\ DurationSet = {10, 30} /\ c.p100 = 50) => c.result100 = 2000
        /\ (Len(durations) = 2 /\ DurationSet = {10, 30} /\ c.p100 = 95) => c.result100 = 2900
    /\ \A c \in percentiles, e \in percentiles :
        c.p100 <= e.p100 => c.result100 <= e.result100

C25_Witness ==
    /\ durations = <<30, 10>>
    /\ [p100 |-> 50, result100 |-> 2000] \in percentiles
    /\ [p100 |-> 95, result100 |-> 2900] \in percentiles
    /\ Cardinality(percentiles) = 6

(***************************************************************************)
(* neo4j_metrics: the text of a query is a sequence of characters; "TAB"   *)
(* and "LF" stand for the tab and the line feed.                           *)
(***************************************************************************)

Whitespace == {" ", "TAB", "LF"}

UpperCase == <<"A", "B", "C", "D", "E", "F", "G", "H", "I", "J", "K", "L", "M", "N", "O", "P", "Q", "R", "S", "T", "U", "V", "W", "X", "Y", "Z">>

LowerCase == <<"a", "b", "c", "d", "e", "f", "g", "h", "i", "j", "k", "l", "m", "n", "o", "p", "q", "r", "s", "t", "u", "v", "w", "x", "y", "z">>

\* str.lower() on one character
LowerChar(c) ==
    IF \E i \in 1 .. Len(UpperCase) : UpperCase[i] = c
    THEN LowerCase[CHOOSE i \in 1 .. Len(UpperCase) : UpperCase[i] = c]
    ELSE c

Lower(text) == [i \in 1 .. Len(text) |-> LowerChar(text[i])]

RECURSIVE SplitWords(_, _)
\* str.split(): the maximal runs of characters that are not whitespace;
\* word is the run being read
SplitWords(text, word) ==
    IF text = <<>> THEN (IF word = <<>> THEN <<>> ELSE <<word>>)
    ELSE IF Head(text) \in Whitespace
         THEN (IF word = <<>> THEN <<>> ELSE <<word>>) \o SplitWords(Tail(text), <<>>)
         ELSE SplitWords(Tail(text), Append(word, Head(text)))

RECURSIVE JoinWords(_)
\* " ".join(words)
JoinWords(words) ==
    IF words = <<>> THEN <<>>
    ELSE IF Len(words) = 1 THEN words[1]
    ELSE words[1] \o <<" ">> \o JoinWords(Tail(words))

KeepText(text) == text

\* neo4j_metrics.py, lines 39-40: " ".join(query.strip().split())
NormalizeQueryText(text) == JoinWords(SplitWords(text, <<>>))

StartsWith(text, prefix) ==
    Len(prefix) <= Len(text) /\ SubSeq(text, 1, Len(prefix)) = prefix

\* pattern in text
Contains(text, pattern) ==
    \E i \in 1 .. Len(text) - Len(pattern) + 1 :
        SubSeq(text, i, i + Len(pattern) - 1) = pattern

IndexingPatterns ==
    { <<"c", "r", "e", "a", "t", "e", " ", "i", "n", "d", "e", "x">>,
      <<"d", "r", "o", "p", " ", "i", "n", "d", "e", "x">>,
      <<"s", "h", "o", "w", " ", "i", "n", "d", "e", "x", "e", "s">>,
      <<"c", "r", "e", "a", "t", "e", " ", "c", "o", "n", "s", "t", "r", "a", "i", "n", "t">>,
      <<"d", "r", "o", "p", " ", "c", "o", "n", "s", "t", "r", "a", "i", "n", "t">> }

SearchPatternsWithoutFulltext ==
    { <<"v", "e", "c", "t", "o", "r", ".", "s", "i", "m", "i", "l", "a", "r", "i", "t", "y">>,
      <<"v", "e", "c", "t", "o", "r", ".", "q", "u", "e", "r", "y", "n", "o", "d", "e", "s">> }

SearchPatterns ==
    { <<"v", "e", "c", "t", "o", "r", ".", "s", "i", "m", "i", "l", "a", "r", "i", "t", "y">>,
      <<"d", "b", ".", "i", "n", "d", "e", "x", ".", "f", "u", "l", "l", "t", "e", "x", "t", ".", "q", "u", "e", "r", "y">>,
      <<"v", "e", "c", "t", "o", "r", ".", "q", "u", "e", "r", "y", "n", "o", "d", "e", "s">> }

WritePrefixesWithoutSet == {<<"m", "e", "r", "g", "e">>, <<"c", "r", "e", "a", "t", "e">>, <<"d", "e", "l", "e", "t", "e">>}

\* q.startswith("merge") or ... "create" ... "delete" ... "set"
WritePrefixes == {<<"m", "e", "r", "g", "e">>, <<"c", "r", "e", "a", "t", "e">>, <<"d", "e", "l", "e", "t", "e">>, <<"s", "e", "t">>}

ReadPrefixesWithoutMatch == {<<"w", "i", "t", "h", " ", "m", "a", "t", "c", "h">>}

\* q.startswith("match") or q.startswith("with match")
ReadPrefixes == {<<"m", "a", "t", "c", "h">>, <<"w", "i", "t", "h", " ", "m", "a", "t", "c", "h">>}

\* neo4j_metrics.py, lines 48-66
classify_cypher_query(text) ==
    LET q == Lower(NormalizeQueryText(text)) IN
    IF q = <<>> THEN "unknown"
    ELSE IF \E pat \in IndexingPatterns : Contains(q, pat) THEN "indexing"
    ELSE IF \E pat \in SearchPatterns : Contains(q, pat) THEN "search"
    ELSE IF \E pre \in WritePrefixes : StartsWith(q, pre) THEN "write"
    ELSE IF (\E pre \in ReadPrefixes : StartsWith(q, pre)) \/ Contains(q, <<" ", "r", "e", "t", "u", "r", "n", " ">>)
    THEN "read"
    ELSE "other"

\* neo4j_metrics.py, lines 43-45: the first 12 hex digits of the SHA-1 of the
\* normalized text.  The digest is taken as free of collisions: it is
\* represented by the text it was computed from
cypher_hash(text) == [sha1_of |-> NormalizeQueryText(text)]

\* the words queries are written with
Vocabulary ==
    { <<"M", "E", "R", "G", "E">>,
      <<"C", "r", "e", "a", "t", "e">>,
      <<"D", "E", "L", "E", "T", "E">>,
      <<"S", "E", "T">>,
      <<"M", "A", "T", "C", "H">>,
      <<"R", "E", "T", "U", "R", "N">>,
      <<"I", "N", "D", "E", "X">>,
      <<"(", "n", ")">>,
      <<"v", "e", "c", "t", "o", "r", ".", "s", "i", "m", "i", "l", "a", "r", "i", "t", "y", "(", "n", ")">>,
      <<"{", "i", "d", ":", "1", "}">> }

\* a word list written out with single spaces; with doubled spaces and
\* spaces around; or with line feeds between the words and tabs around
Styles == {"plain", "spread", "lines"}

RECURSIVE Render(_, _)
Render(words, style) ==
    LET sep == CASE style = "plain" -> <<" ">>
                 [] style = "spread" -> <<" ", " ">>
                 [] style = "lines" -> <<"LF">>
    IN IF words = <<>> THEN <<>>
       ELSE IF Len(words) = 1 THEN words[1]
       ELSE words[1] \o sep \o Render(Tail(words), style)

Written(words, style) ==
    CASE style = "plain" -> Render(words, style)
      [] style = "spread" -> <<" ">> \o Render(words, style) \o <<" ", " ">>
      [] style = "lines" -> <<"TAB">> \o Render(words, style) \o <<"LF">>

\* the same statement written with another literal
OtherLiteral(word) == IF word = <<"{", "i", "d", ":", "1", "}">> THEN <<"{", "i", "d", ":", "2", "}">> ELSE word

WithOtherLiterals(words) == [i \in 1 .. Len(words) |-> OtherLiteral(words[i])]

\* the same statement with another last word
WithOtherToken(words) == [i \in 1 .. Len(words) |-> IF i = Len(words) THEN <<"(", "m", ")">> ELSE words[i]]

Relations == {"respaced", "literal", "token"}

SecondQuery(words, style, rel) ==
    CASE rel = "respaced" -> Written(words, "plain")
      [] rel = "literal" -> Written(WithOtherLiterals(words), style)
      [] rel = "token" -> Written(WithOtherToken(words), style)

\* neo4j_metrics.py, the traced wrappers: the query_tag and query_hash of an
\* event are computed from the query text
DescribeQueries ==
    /\ tag = "none"
    /\ tag' = classify_cypher_query(query)
    /\ hashes' = [set |-> TRUE, a |-> cypher_hash(query), b |-> cypher_hash(queryB)]
    /\ UNCHANGED <<query, queryB, relation, patterns>>
    /\ UNCHANGED <<ratesVars, icVars, tlVars, flVars, outVars, colVars, mxVars, rpVars, bdVars,
                   agVars, pcVars, dsVars, lcVars, ovVars, cmVars>>

\* matrix_report.py, lines 188-218: the report groups the events of the two
\* queries by their query_hash
GroupQueries ==
    /\ hashes.set
    /\ patterns = <<>>
    /\ patterns' = TopQueries(<<QueryEvent(TRUE, 10, hashes.a), QueryEvent(TRUE, 30, hashes.b)>>)
    /\ UNCHANGED <<query, queryB, relation, tag, hashes>>
    /\ UNCHANGED <<ratesVars, icVars, tlVars, flVars, outVars, colVars, mxVars, rpVars, bdVars,
                   agVars, pcVars, dsVars, lcVars, ovVars, cmVars>>

InitCypher ==
    /\ phase = "done"
    /\ line = NoEntry
    /\ RatesInit
    /\ InterceptIdle
    /\ TraceLoggerIdle
    /\ FlattenIdle
    /\ OutputIdle
    /\ CollectIdle
    /\ MatrixIdle
    /\ ReportIdle
    /\ BreakdownIdle
    /\ AggregateIdle
    /\ PercentileIdle
    /\ DatasetIdle
    /\ LifecycleIdle
    /\ OverlapIdle
    /\ CompareIdle
    /\ \E words \in SeqsUpTo(Vocabulary, MaxWords), style \in Styles :
        /\ query = Written(words, style)
        /\ relation \in Relations
        /\ relation # "respaced" => style = "plain"
        /\ relation = "token" => words # <<>>
        /\ relation = "literal" => WithOtherLiterals(words) # words
        /\ queryB = SecondQuery(words, style, relation)
    /\ tag = "none"
    /\ hashes = NoHashes
    /\ patterns = <<>>

NextCypher ==
    \/ DescribeQueries
    \/ GroupQueries

SpecCypher == InitCypher /\ [][NextCypher]_vars

\* the words of a text, lower-cased: its maximal runs without whitespace
WordsOf(text) == SplitWords(Lower(text), <<>>)

WordStartsWith(word, prefix) ==
    Len(prefix) <= Len(word) /\ \A i \in 1 .. Len(prefix) : word[i] = prefix[i]

FirstWordStartsWith(text, prefixes) ==
    LET words == WordsOf(text) IN
    words # <<>> /\ \E pre \in prefixes : WordStartsWith(words[1], pre)

HasWord(text, word) ==
    LET words == WordsOf(text) IN
    \E i \in 1 .. Len(words) : words[i] = word

HasWordWithin(text, part) ==
    LET words == WordsOf(text) IN
    \E i \in 1 .. Len(words) : Contains(words[i], part)

\* the text has an index DDL keyword or a vector-similarity call
IsIndexingOrSearch(text) ==
    LET words == WordsOf(text) IN
    \/ \E i \in 1 .. Len(words) - 1 :
          /\ words[i] \in {<<"c", "r", "e", "a", "t", "e">>, <<"d", "r", "o", "p">>}
          /\ WordStartsWith(words[i + 1], <<"i", "n", "d", "e", "x">>)
    \/ HasWordWithin(text, <<"v", "e", "c", "t", "o", "r", ".", "s", "i", "m", "i", "l", "a", "r", "i", "t", "y">>)

\* the keywords of the claims, lower-cased
WriteKeywords == {<<"m", "e", "r", "g", "e">>, <<"c", "r", "e", "a", "t", "e">>, <<"d", "e", "l", "e", "t", "e">>, <<"s", "e", "t">>}

\* C26 as stated: every statement that starts with MERGE, CREATE, DELETE or
\* SET, in any case and after any whitespace, is tagged write.
C26_WriteForWriteKeywords ==
    (tag # "none" /\ FirstWordStartsWith(query, WriteKeywords)) => tag = "write"

\* C26, amended: a statement that starts with MERGE, CREATE, DELETE or SET is
\* tagged write unless it has an index DDL keyword or a vector-similarity
\* call, which are looked for first.
C26_WriteUnlessIndexingOrSearch ==
    (tag # "none" /\ FirstWordStartsWith(query, WriteKeywords)) =>
        IF IsIndexingOrSearch(query) THEN tag \in {"indexing", "search"} ELSE tag = "write"

C26_Witness ==
    /\ query = Written(<<<<"M", "E", "R", "G", "E">>, <<"(", "n", ")">>, <<"R", "E", "T", "U", "R", "N">>>>, "lines")
    /\ tag = "write"

MatchKeyword == <<"m", "a", "t", "c", "h">>

ReturnKeyword == <<"r", "e", "t", "u", "r", "n">>

\* the text has a RETURN between two other words
HasInnerReturn(text) ==
    LET words == WordsOf(text) IN
    \E i \in 2 .. Len(words) - 1 : words[i] = ReturnKeyword

TokensOf(text) == SplitWords(text, <<>>)

\* C28: the hash of a query depends only on its whitespace-normalized text:
\* two texts with the same tokens in the same order have the same hash, and
\* two texts whose tokens differ have different hashes.
C28_HashFollowsNormalizedText ==
    hashes.set =>
        /\ (hashes.a = hashes.b) <=> (TokensOf(query) = TokensOf(queryB))
        /\ relation = "respaced" => hashes.a = hashes.b
        /\ relation = "token" => hashes.a # hashes.b

C28_Witness ==
    /\ hashes.set
    /\ relation = "respaced"
    /\ query = Written(<<<<"M", "A", "T", "C", "H">>, <<"(", "n", ")">>, <<"R", "E", "T", "U", "R", "N">>>>, "lines")
    /\ query # queryB
    /\ hashes.a = hashes.b

\* C29 as stated: two queries of the same shape that differ only in literal
\* values get the same hash and are counted as one pattern.
C29_LiteralsShareOnePattern ==
    (relation = "literal" /\ patterns # <<>>) =>
        /\ hashes.a = hashes.b
        /\ Len(patterns) = 1
        /\ patterns[1].count = 2

C29_Witness ==
    /\ relation = "literal"
    /\ query = Written(<<<<"M", "E", "R", "G", "E">>, <<"{", "i", "d", ":", "1", "}">>>>, "plain")
    /\ hashes.a # hashes.b
    /\ Len(patterns) = 2
    /\ \A i \in 1 .. 2 : patterns[i].count = 1

(***************************************************************************)
(* datasets.py: load_dataset.  An item of the built-in corpus is           *)
(* represented by its position in the list; a line of a legacy trace file  *)
(* by whether it is blank, whether it parses as JSON, and its "input".     *)
(***************************************************************************)

\* common.py, lines 39-99: the 50 distinct items of TEST_CORPUS
TEST_CORPUS == [i \in 1 .. 50 |-> i]

Line(kind, input) == [kind |-> kind, input |-> input]

\* a blank line, a line that is not JSON, a JSON line without "input" or with
\* an empty one, and JSON lines with an input
LineChoices ==
    {Line("blank", ""), Line("invalid", ""), Line("json", ""), Line("json", "a"), Line("json", "b")}

RECURSIVE LegacyInputs(_)
\* datasets.py, lines 44-57: blank lines, lines that do not parse and lines
\* without an input are passed over
LegacyInputs(lines) ==
    IF lines = <<>> THEN <<>>
    ELSE LET l == Head(lines) IN
         IF l.kind = "blank" THEN LegacyInputs(Tail(lines))
         ELSE IF l.kind = "invalid" THEN LegacyInputs(Tail(lines))
         ELSE IF l.input = "" THEN LegacyInputs(Tail(lines))
         ELSE <<l.input>> \o LegacyInputs(Tail(lines))

KeepAll(list, num_items) == list

\* datasets.py, lines 20-23
Limit(list, num_items) ==
    IF ~num_items.given \/ num_items.n < 0 THEN list
    ELSE SubSeq(list, 1, Min(num_items.n, Len(list)))

\* the datasets whose rows are read and cut by this module; the tau2 datasets
\* are read and cut by tau2.run.get_tasks
LocalDatasets == {"corpus50", "taubench_legacy"}

\* datasets.py, lines 60-74
load_dataset(dataset, num_items, lines) ==
    IF dataset = "corpus50" THEN Limit(TEST_CORPUS, num_items)
    ELSE Limit(LegacyInputs(lines), num_items)

\* run_matrix.py, lines 104-109: --num-items is any integer, or absent
NumItemsChoices == {NoLimit} \cup {[given |-> TRUE, n |-> k] : k \in {-1, 0, 1, 2, 7, 50, 51}}

\* run_matrix.py, line 142: rows = load_dataset(dataset, num_items=args.num_items)
LoadRows ==
    /\ \E dataset \in LocalDatasets, num_items \in NumItemsChoices :
        loaded' = [called |-> TRUE, dataset |-> dataset, num_items |-> num_items,
                   rows |-> load_dataset(dataset, num_items, taubench)]
    /\ UNCHANGED taubench
    /\ UNCHANGED <<ratesVars, icVars, tlVars, flVars, outVars, colVars, mxVars, rpVars, bdVars,
                   agVars, pcVars, cyVars, lcVars, ovVars, cmVars>>

InitDatasets ==
    /\ phase = "done"
    /\ line = NoEntry
    /\ RatesInit
    /\ InterceptIdle
    /\ TraceLoggerIdle
    /\ FlattenIdle
    /\ OutputIdle
    /\ CollectIdle
    /\ MatrixIdle
    /\ ReportIdle
    /\ BreakdownIdle
    /\ AggregateIdle
    /\ PercentileIdle
    /\ CypherIdle
    /\ taubench \in SeqsUpTo(LineChoices, MaxLines)
    /\ loaded = NotLoaded
    /\ LifecycleIdle
    /\ OverlapIdle
    /\ CompareIdle

NextDatasets == LoadRows

SpecDatasets == InitDatasets /\ [][NextDatasets]_vars

\* the first n items of a list, all of them when it has fewer
FirstItems(list, n) ==
    IF n <= 0 THEN <<>>
    ELSE [i \in 1 .. (IF n < Len(list) THEN n ELSE Len(list)) |-> list[i]]

\* load_dataset(name) of the last call's dataset
FullDataset == load_dataset(loaded.dataset, NoLimit, taubench)

\* the full corpus50 list is the 50 built-in items in their order
CorpusIsBuiltIn ==
    loaded.dataset = "corpus50" =>
        /\ Len(FullDataset) = 50
        /\ \A i \in 1 .. 50 : FullDataset[i] = TEST_CORPUS[i]

RUNNERS == {"openai_base", "mem0", "graphiti"}

\* the collectors that work on a Neo4j database
GraphCollectors == {"mem0", "graphiti"}

BEvent(component, op, stage, origin) ==
    [component |-> component, op |-> op, stage |-> stage, origin |-> origin]

\* common.py, line 131, and neo4j_metrics.py, line 141: open(path, "w")
Truncated == [exists |-> TRUE, lines |-> <<>>, touched |-> TRUE]

\* the state of a trace file as run_matrix sees it
TraceState(f) == IF ~f.exists THEN "absent" ELSE IF f.lines = <<>> THEN "empty" ELSE "old"

\* whether collect() has a breakdown logger: run_matrix passes a path under
\* --with-breakdown; the tau2 collector has none
HasBreakdown == lcRun.with_breakdown /\ lcCell.collector \in RUNNERS

\* BreakdownLogger.log_event on the breakdown file, when there is a logger
Logged(files, events) ==
    IF HasBreakdown
    THEN [files EXCEPT !.breakdown.lines = @ \o events]
    ELSE files

\* neo4j_metrics.py, lines 402-427: the five queries of capture_db_snapshot
SnapshotQueries ==
    <<"show_indexes", "count_nodes", "count_relationships", "node_properties",
      "relationship_properties">>

\* neo4j_metrics.py, lines 385-463: the queries of the snapshot go through
\* Driver.execute_query, which writes a cypher_query event for each of them
\* when the traced wrapper is installed; the db_snapshot event follows
SnapshotWrites(stage, patched) ==
    (IF patched
     THEN [i \in 1 .. Len(SnapshotQueries) |-> BEvent("neo4j", "cypher_query", stage, "snapshot")]
     ELSE <<>>)
    \o <<BEvent("neo4j", "db_snapshot", stage, "collector")>>

OpeningEventsSnapshotFirst(collector, patched) ==
    (IF collector \in GraphCollectors THEN SnapshotWrites("before_collection", patched) ELSE <<>>)
    \o <<BEvent("collector", "start", "", "collector")>>

\* mem0_collector.py, lines 161-172, graphiti_collector.py, lines 236-246,
\* openai_base_collector.py, lines 64-65
OpeningEvents(collector, patched) ==
    <<BEvent("collector", "start", "", "collector")>>
    \o (IF collector \in GraphCollectors THEN SnapshotWrites("before_collection", patched) ELSE <<>>)

\* mem0_collector.py, lines 203-214, graphiti_collector.py, lines 306-317,
\* openai_base_collector.py, lines 133-134
ClosingEvents(collector, patched) ==
    (IF collector \in GraphCollectors THEN SnapshotWrites("after_collection", patched) ELSE <<>>)
    \o <<BEvent("collector", "finish", "", "collector")>>

\* the name of the per-item event of a collector
ItemOp(collector) ==
    CASE collector = "mem0" -> [component |-> "mem0", op |-> "add"]
      [] collector = "graphiti" -> [component |-> "graphiti", op |-> "add_episode"]
      [] OTHER -> [component |-> "openai", op |-> "chat_completion"]

\* the events of one workload item: the storage queries of a graph collector
\* are written by the traced wrapper when it is installed, the per-item event
\* by the collector
ItemEvents(collector, patched, recorded) ==
    (IF collector \in GraphCollectors /\ patched
     THEN <<BEvent("neo4j", "cypher_query", "", "workload")>> ELSE <<>>)
    \o (IF recorded
        THEN <<BEvent(ItemOp(collector).component, ItemOp(collector).op, "", "item")>>
        ELSE <<>>)

TableRow(status, called, opened) ==
    [turn |-> lcRun.turn, status |-> status, invoked |-> called, opened |-> opened,
     skip_existing |-> lcRun.skip_existing]

\* what had been done when a failure is raised
Raised(kind, files, patched, sent) ==
    [kind |-> kind, turn |-> lcRun.turn, trace |-> files.trace.touched,
     breakdown |-> files.breakdown.touched, patched |-> patched, sent |-> sent]

\* run_matrix.py, lines 140-187: the dataset is loaded, then the cell is
\* skipped or its runner called; run_all.py, lines 80-91, calls the collector
LcCheckCell ==
    /\ lcPc = "cell"
    /\ IF lcCell.collector \in RUNNERS /\ ~lcCell.known
       THEN /\ lcRaise' = Raised("config", lcDisk, lcPatched, lcSent)
            /\ lcTable' = Append(lcTable, TableRow("error", FALSE, FALSE))
            /\ lcPc' = "ended"
       ELSE IF lcCell.collector \in RUNNERS /\ ShouldSkip(lcRun.skip_existing, TraceState(lcDisk.trace))
       THEN /\ lcTable' = Append(lcTable, TableRow("skipped", FALSE, FALSE))
            /\ lcPc' = "ended"
            /\ UNCHANGED lcRaise
       ELSE /\ lcPc' = "begin"
            /\ UNCHANGED <<lcRaise, lcTable>>
    /\ UNCHANGED <<lcCell, lcRun, lcDisk, lcPatched, lcSent>>
    /\ UNCHANGED <<ratesVars, icVars, tlVars, flVars, outVars, colVars, mxVars, rpVars, bdVars,
                   agVars, pcVars, cyVars, dsVars, ovVars, cmVars>>

\* collect() up to the opening of the trace file: tau2_collector.py, lines
\* 109-115; openai_base_collector.py, lines 50-64; mem0_collector.py, lines
\* 110-124; graphiti_collector.py, lines 190-204
LcBegin ==
    /\ lcPc = "begin"
    /\ \E built \in BOOLEAN :
        LET c == lcCell.collector
            opened == [trace |-> Truncated,
                       breakdown |-> IF HasBreakdown THEN Truncated ELSE lcDisk.breakdown]
        IN
        /\ c # "openai_base" => built
        /\ CASE c = "tau2" /\ ~lcCell.known ->
                   /\ lcRaise' = Raised("config", lcDisk, lcPatched, lcSent)
                   /\ lcTable' = Append(lcTable, TableRow("error", TRUE, FALSE))
                   /\ lcPc' = "ended"
                   /\ UNCHANGED <<lcDisk, lcPatched>>
             [] c = "tau2" /\ lcCell.known ->
                   /\ lcDisk' = opened
                   /\ lcPatched' = TRUE
                   /\ lcPc' = "items"
                   /\ UNCHANGED <<lcRaise, lcTable>>
             [] c = "openai_base" /\ ~built ->
                   /\ lcRaise' = Raised("config", lcDisk, lcPatched, lcSent)
                   /\ lcTable' = Append(lcTable, TableRow("error", TRUE, FALSE))
                   /\ lcPc' = "ended"
                   /\ UNCHANGED <<lcDisk, lcPatched>>
             [] c = "openai_base" /\ built ->
                   /\ lcDisk' = Logged(opened, OpeningEvents(c, lcPatched))
                   /\ lcPc' = "items"
                   /\ UNCHANGED <<lcRaise, lcTable, lcPatched>>
             [] OTHER ->
                   /\ lcDisk' = opened
                   /\ lcPc' = "opened"
                   /\ UNCHANGED <<lcRaise, lcTable, lcPatched>>
    /\ UNCHANGED <<lcCell, lcRun, lcSent>>
    /\ UNCHANGED <<ratesVars, icVars, tlVars, flVars, outVars, colVars, mxVars, rpVars, bdVars,
                   agVars, pcVars, cyVars, dsVars, ovVars, cmVars>>

\* mem0_collector.py, lines 125-172: Memory.from_config(config), and
\* graphiti_collector.py, lines 205-246: the client, the driver and Graphiti
\* are built; both inside the with block of the trace logger.  Then the
\* start event and the first snapshot
LcConfigure ==
    /\ lcPc = "opened"
    /\ \E configured \in BOOLEAN :
        IF configured
        THEN /\ lcDisk' = Logged(lcDisk, OpeningEvents(lcCell.collector, lcPatched))
             /\ lcPc' = "ready"
             /\ UNCHANGED <<lcRaise, lcTable>>
        ELSE /\ lcRaise' = Raised("config", lcDisk, lcPatched, lcSent)
             /\ lcTable' = Append(lcTable, TableRow("error", TRUE, TRUE))
             /\ lcPc' = "ended"
             /\ UNCHANGED lcDisk
    /\ UNCHANGED <<lcCell, lcRun, lcPatched, lcSent>>
    /\ UNCHANGED <<ratesVars, icVars, tlVars, flVars, outVars, colVars, mxVars, rpVars, bdVars,
                   agVars, pcVars, cyVars, dsVars, ovVars, cmVars>>

\* with patch_neo4j_calls(b_logger): mem0_collector.py, line 175;
\* graphiti_collector.py, lines 248-267, where the indices are built first
LcEnterPatch ==
    /\ lcPc = "ready"
    /\ lcPatched' = HasBreakdown
    /\ lcDisk' = IF lcCell.collector = "graphiti"
                 THEN Logged(lcDisk,
                             (IF HasBreakdown
                              THEN <<BEvent("neo4j", "cypher_query", "", "workload")>> ELSE <<>>)
                             \o <<BEvent("graphiti", "build_indices", "", "item")>>)
                 ELSE lcDisk
    /\ lcPc' = "items"
    /\ UNCHANGED <<lcCell, lcRun, lcSent, lcRaise, lcTable>>
    /\ UNCHANGED <<ratesVars, icVars, tlVars, flVars, outVars, colVars, mxVars, rpVars, bdVars,
                   agVars, pcVars, cyVars, dsVars, ovVars, cmVars>>

\* one workload item: it succeeds, fails and is passed over, or an exception
\* escapes the loop (the event write of a breakdown logger fails, or
\* run_domain raises); the patch is undone on the way out
LcSendItem ==
    /\ lcPc = "items"
    /\ lcSent < lcCell.rows
    /\ \E outcome \in {"ok", "passed_over", "escapes"} :
        LET c == lcCell.collector
            sent == [lcDisk EXCEPT !.trace.lines =
                        IF outcome = "ok" THEN Append(@, "entry") ELSE @]
        IN
        /\ outcome = "escapes" => (HasBreakdown \/ c = "tau2")
        /\ (c = "tau2" /\ outcome = "passed_over") => FALSE
        /\ lcSent' = lcSent + 1
        /\ IF outcome = "escapes"
           THEN /\ lcDisk' = Logged(sent, ItemEvents(c, lcPatched, FALSE)
                                \o (IF c = "graphiti"
                                    THEN <<BEvent("graphiti", "collection", "", "item")>>
                                    ELSE <<>>))
                /\ lcPatched' = FALSE
                /\ lcRaise' = Raised("runtime", sent, lcPatched, lcSent + 1)
                /\ lcTable' = Append(lcTable, TableRow("error", TRUE, TRUE))
                /\ lcPc' = "ended"
           ELSE /\ lcDisk' = Logged(sent, ItemEvents(c, lcPatched, TRUE))
                /\ UNCHANGED <<lcPatched, lcRaise, lcTable, lcPc>>
    /\ UNCHANGED <<lcCell, lcRun>>
    /\ UNCHANGED <<ratesVars, icVars, tlVars, flVars, outVars, colVars, mxVars, rpVars, bdVars,
                   agVars, pcVars, cyVars, dsVars, ovVars, cmVars>>

\* the end of the loop: the patch scope is left (neo4j_metrics.py, lines
\* 376-382; tau2_collector.py, lines 147-148) and the originals are back
LcLeavePatch ==
    /\ lcPc = "items"
    /\ lcSent = lcCell.rows
    /\ lcPatched' = FALSE
    /\ lcPc' = "after"
    /\ UNCHANGED <<lcCell, lcRun, lcDisk, lcSent, lcRaise, lcTable>>
    /\ UNCHANGED <<ratesVars, icVars, tlVars, flVars, outVars, colVars, mxVars, rpVars, bdVars,
                   agVars, pcVars, cyVars, dsVars, ovVars, cmVars>>

\* the last snapshot and the finish event are written, collect() returns and
\* the row is recorded
LcFinish ==
    /\ lcPc = "after"
    /\ lcDisk' = IF lcCell.collector = "tau2" THEN lcDisk
                 ELSE Logged(lcDisk, ClosingEvents(lcCell.collector, lcPatched))
    /\ lcTable' = Append(lcTable, TableRow("ok", TRUE, TRUE))
    /\ lcPc' = "ended"
    /\ UNCHANGED <<lcCell, lcRun, lcPatched, lcSent, lcRaise>>
    /\ UNCHANGED <<ratesVars, icVars, tlVars, flVars, outVars, colVars, mxVars, rpVars, bdVars,
                   agVars, pcVars, cyVars, dsVars, ovVars, cmVars>>

\* the same command is given again, over the files the first run left
LcRunAgain ==
    /\ lcPc = "ended"
    /\ lcRun.turn = "first"
    /\ \E skip \in BOOLEAN, bd \in BOOLEAN :
        /\ lcCell.collector = "tau2" => (~skip /\ ~bd)
        /\ lcRun' = [turn |-> "later", skip_existing |-> skip, with_breakdown |-> bd]
    /\ lcDisk' = [lcDisk EXCEPT !.trace.touched = FALSE, !.breakdown.touched = FALSE]
    /\ lcSent' = 0
    /\ lcPc' = "cell"
    /\ UNCHANGED <<lcCell, lcPatched, lcRaise, lcTable>>
    /\ UNCHANGED <<ratesVars, icVars, tlVars, flVars, outVars, colVars, mxVars, rpVars, bdVars,
                   agVars, pcVars, cyVars, dsVars, ovVars, cmVars>>

OldFile(lines) == [exists |-> TRUE, lines |-> lines, touched |-> FALSE]

InitLifecycle ==
    /\ phase = "done"
    /\ line = NoEntry
    /\ RatesInit
    /\ InterceptIdle
    /\ TraceLoggerIdle
    /\ FlattenIdle
    /\ OutputIdle
    /\ CollectIdle
    /\ MatrixIdle
    /\ ReportIdle
    /\ BreakdownIdle
    /\ AggregateIdle
    /\ PercentileIdle
    /\ CypherIdle
    /\ DatasetIdle
    /\ OverlapIdle
    /\ CompareIdle
    /\ lcCell \in [collector : RUNNERS \cup {"tau2"}, rows : 0 .. MaxRows, known : BOOLEAN]
    /\ lcRun \in [turn : {"first"}, skip_existing : BOOLEAN, with_breakdown : BOOLEAN]
    /\ lcCell.collector = "tau2" => (~lcRun.skip_existing /\ ~lcRun.with_breakdown)
    /\ lcPc = "cell"
    /\ lcDisk \in [trace : {NoFile, OldFile(<<>>), OldFile(<<"entry">>)},
                   breakdown : {NoFile, OldFile(<<BEvent("collector", "finish", "", "collector")>>)}]
    /\ lcPatched = FALSE
    /\ lcSent = 0
    /\ lcRaise = NoRaise
    /\ lcTable = <<>>

NextLifecycle ==
    \/ LcCheckCell
    \/ LcBegin
    \/ LcConfigure
    \/ LcEnterPatch
    \/ LcSendItem
    \/ LcLeavePatch
    \/ LcFinish
    \/ LcRunAgain

SpecLifecycle == InitLifecycle /\ [][NextLifecycle]_vars

\* C31 as stated: when a configuration or precondition failure is raised, no
\* trace or breakdown file has been created or truncated, no call path has
\* been patched and no workload item has been sent.
C31_ConfigFailureTouchesNothing ==
    lcRaise.kind = "config" =>
        /\ ~lcRaise.trace
        /\ ~lcRaise.breakdown
        /\ ~lcRaise.patched
        /\ lcRaise.sent = 0

C31_Witness ==
    /\ lcCell.collector = "mem0"
    /\ lcRaise.kind = "config"
    /\ lcRaise.turn = "first"
    /\ lcRaise.trace
    /\ lcRaise.breakdown
    /\ lcDisk.trace = [exists |-> TRUE, lines |-> <<>>, touched |-> TRUE]

\* the breakdown file of a mem0 or graphiti collection that ran to completion
CompletedBreakdown ==
    /\ lcPc = "ended"
    /\ lcCell.collector \in GraphCollectors
    /\ HasBreakdown
    /\ lcTable # <<>>
    /\ lcTable[Len(lcTable)].turn = lcRun.turn
    /\ lcTable[Len(lcTable)].status = "ok"

IsEvent(e, component, op) == e.component = component /\ e.op = op

\* a storage-query or per-item event
IsWorkEvent(e) ==
    \/ e.op = "cypher_query"
    \/ e.component \in {"mem0", "graphiti"}

\* C35: in the breakdown file of a mem0 or graphiti collection that ran to
\* completion, collector/start is first and collector/finish last, the
\* before_collection snapshot precedes and the after_collection snapshot
\* follows every storage-query and per-item event, and no query of the
\* snapshot helper was written as an event.
C35_BreakdownEventOrder ==
    CompletedBreakdown =>
        LET ev == lcDisk.breakdown.lines IN
        /\ Len(ev) >= 4
        /\ IsEvent(ev[1], "collector", "start")
        /\ IsEvent(ev[Len(ev)], "collector", "finish")
        /\ IsEvent(ev[2], "neo4j", "db_snapshot") /\ ev[2].stage = "before_collection"
        /\ IsEvent(ev[Len(ev) - 1], "neo4j", "db_snapshot")
        /\ ev[Len(ev) - 1].stage = "after_collection"
        /\ \A i \in 1 .. Len(ev) : IsWorkEvent(ev[i]) => (2 < i /\ i < Len(ev) - 1)
        /\ \A i \in 1 .. Len(ev) : ev[i].origin # "snapshot"

C35_Witness ==
    /\ CompletedBreakdown
    /\ lcCell.collector = "graphiti"
    /\ lcCell.rows = 2
    /\ Len(lcDisk.breakdown.lines) = 10
    /\ lcDisk.breakdown.lines[4].op = "build_indices"
    /\ lcDisk.breakdown.lines[5].op = "cypher_query"

\* C36: a collector that raises after its trace logger was opened leaves the
\* cell recorded as error with its trace file on disk, and a later run of the
\* matrix with --skip-existing records the cell as skipped without calling
\* the collector.
C36_FailedCellIsSkippedLater ==
    /\ (/\ lcPc = "ended"
        /\ lcCell.collector \in RUNNERS
        /\ lcRun.turn = "first"
        /\ lcRaise.kind # "none"
        /\ lcRaise.trace)
       => (/\ lcTable[1].status = "error"
           /\ lcDisk.trace.exists)
    /\ (/\ Len(lcTable) = 2
        /\ lcCell.collector \in RUNNERS
        /\ lcTable[1].status = "error"
        /\ lcTable[1].opened
        /\ lcTable[2].skip_existing)
       => (/\ lcTable[2].status = "skipped"
           /\ ~lcTable[2].invoked)

C36_Witness ==
    /\ Len(lcTable) = 2
    /\ lcCell.collector = "mem0"
    /\ lcTable[1].status = "error"
    /\ lcTable[1].opened
    /\ lcDisk.trace.lines = <<>>
    /\ lcTable[2].skip_existing
    /\ lcTable[2].status = "skipped"
    /\ ~lcTable[2].invoked

(***************************************************************************)
(* matrix_report._compute_breakdown_metrics over streams with several      *)
(* query hashes and prompt hashes.  The hashes are interchangeable, so a    *)
(* stream uses them in the order of their names.                           *)
(***************************************************************************)

QueryHashes == <<"q1", "q2", "q3", "q4">>

PromptHashes == <<"p1", "p2", "p3", "p4">>

HashedEvents ==
    {QueryEvent(FALSE, 0, QueryHashes[k]) : k \in 1 .. Len(QueryHashes)}
    \cup {PromptEvent(PromptHashes[k]) : k \in 1 .. Len(PromptHashes)}

\* hash k + 1 of a kind is first used after hash k of that kind
InNameOrder(events) ==
    \A i \in 1 .. Len(events) : \A k \in 2 .. Len(QueryHashes) :
        /\ (IsQuery(events[i]) /\ events[i].query_hash = QueryHashes[k]) =>
              \E j \in 1 .. i - 1 :
                  IsQuery(events[j]) /\ events[j].query_hash = QueryHashes[k - 1]
        /\ (IsPrompt(events[i]) /\ events[i].prompt_hash = PromptHashes[k]) =>
              \E j \in 1 .. i - 1 :
                  IsPrompt(events[j]) /\ events[j].prompt_hash = PromptHashes[k - 1]

InitTop ==
    /\ phase = "done"
    /\ line = NoEntry
    /\ RatesInit
    /\ InterceptIdle
    /\ TraceLoggerIdle
    /\ FlattenIdle
    /\ OutputIdle
    /\ CollectIdle
    /\ MatrixIdle
    /\ ReportIdle
    /\ BreakdownIdle
    /\ PercentileIdle
    /\ CypherIdle
    /\ DatasetIdle
    /\ LifecycleIdle
    /\ OverlapIdle
    /\ CompareIdle
    /\ stream \in {events \in SeqsUpTo(HashedEvents, MaxTopEvents) : InNameOrder(events)}
    /\ metrics = NoMetrics

NextTop == ComputeBreakdownMetrics

SpecTop == InitTop /\ [][NextTop]_vars

\* the number of events of the stream with a query hash, or a prompt hash
QueryCount(h) ==
    Cardinality({k \in 1 .. Len(stream) : IsQuery(stream[k]) /\ stream[k].query_hash = h})

PromptCount(h) ==
    Cardinality({k \in 1 .. Len(stream) : IsPrompt(stream[k]) /\ stream[k].prompt_hash = h})

UsedQueryHashes ==
    {stream[k].query_hash : k \in {j \in 1 .. Len(stream) : IsQuery(stream[j])}}

UsedPromptHashes ==
    {stream[k].prompt_hash : k \in {j \in 1 .. Len(stream) : IsPrompt(stream[j])}}

RECURSIVE SumOfCounts(_)
SumOfCounts(groups) ==
    IF groups = <<>> THEN 0 ELSE Head(groups).count + SumOfCounts(Tail(groups))

\* the reported groups are the most frequent ones, at most 3, most frequent first
QueryGroupsReported(top) ==
    /\ Len(top) = (IF Cardinality(UsedQueryHashes) < 3 THEN Cardinality(UsedQueryHashes) ELSE 3)
    /\ \A i \in 1 .. Len(top) : top[i].count = QueryCount(top[i].query_hash) /\ top[i].count > 0
    /\ \A i, j \in 1 .. Len(top) : i < j =>
          (top[i].count >= top[j].count /\ top[i].query_hash # top[j].query_hash)
    /\ \A h \in UsedQueryHashes : (\A i \in 1 .. Len(top) : top[i].query_hash # h) =>
          \A i \in 1 .. Len(top) : QueryCount(h) <= top[i].count

PromptGroupsReported(top) ==
    /\ Len(top) = (IF Cardinality(UsedPromptHashes) < 3 THEN Cardinality(UsedPromptHashes) ELSE 3)
    /\ \A i \in 1 .. Len(top) : top[i].count = PromptCount(top[i].prompt_hash) /\ top[i].count > 0
    /\ \A i, j \in 1 .. Len(top) : i < j =>
          (top[i].count >= top[j].count /\ top[i].prompt_hash # top[j].prompt_hash)
    /\ \A h \in UsedPromptHashes : (\A i \in 1 .. Len(top) : top[i].prompt_hash # h) =>
          \A i \in 1 .. Len(top) : PromptCount(h) <= top[i].count

\* C32: the aggregator groups query events by query hash and model-call
\* events by prompt hash, reports at most 3 groups of each kind, most
\* frequent first, omits no group that is more frequent than a reported one,
\* and the counts of all groups of a kind add up to the events of that kind.
C32_TopGroups ==
    metrics # NoMetrics =>
        /\ QueryGroupsReported(metrics.top_queries)
        /\ PromptGroupsReported(metrics.top_prompts)
        /\ SumOfCounts(GroupCounts(stream, <<>>)) = metrics.neo4j_queries
        /\ SumOfCounts(PromptGroupCounts(stream, <<>>)) = metrics.prompt_calls
        /\ metrics.neo4j_queries + metrics.prompt_calls = Len(stream)

C32_Witness ==
    /\ metrics # NoMetrics
    /\ stream = <<QueryEvent(FALSE, 0, "q1"), QueryEvent(FALSE, 0, "q2"), QueryEvent(FALSE, 0, "q3"),
                  QueryEvent(FALSE, 0, "q4"), QueryEvent(FALSE, 0, "q4")>>
    /\ Len(metrics.top_queries) = 3
    /\ metrics.top_queries[1] = [query_hash |-> "q4", count |-> 2]
    /\ metrics.top_queries[2] = [query_hash |-> "q1", count |-> 1]

(***************************************************************************)
(* patch_neo4j_calls entered by tasks of one process that need not leave   *)
(* their scopes in the reverse order of entry.  Each scope keeps, in its    *)
(* own frame, the functions it found on the four call paths (lines         *)
(* 201-204) and assigns them back when it is left (lines 378-382).         *)
(***************************************************************************)

ActiveScopes == {i \in 1 .. Len(ovScopes) : ovScopes[i].state = "active"}

\* neo4j_metrics.py, lines 194-206 and 372-375: the originals are read, the
\* wrappers of this scope are assigned to the classes
OvEnter ==
    /\ Len(ovScopes) < MaxTasks
    /\ \E logger \in BOOLEAN :
        /\ ovScopes' = Append(ovScopes,
                              [patched |-> logger,
                               saved |-> [p \in Neo4jPaths |-> ovInstalled[p]],
                               state |-> "active", left |-> 0])
        /\ ovInstalled' = IF logger THEN Patched(ovInstalled, Neo4jPaths, Len(ovScopes) + 1)
                          ELSE ovInstalled
    /\ ovPeak' = IF Cardinality(ActiveScopes) + 1 > ovPeak
                 THEN Cardinality(ActiveScopes) + 1 ELSE ovPeak
    /\ UNCHANGED <<ratesVars, icVars, tlVars, flVars, outVars, colVars, mxVars, rpVars, bdVars,
                   agVars, pcVars, cyVars, dsVars, lcVars, cmVars>>

\* neo4j_metrics.py, lines 376-382: the body of a scope ends, normally or
\* with an exception, and the finally block assigns the saved functions back
OvExit ==
    /\ \E i \in ActiveScopes : \E how \in {"normal", "exception"} :
        /\ ovInstalled' = ExitNeo4j(how, ovInstalled, ovScopes[i])
        /\ ovScopes' = [ovScopes EXCEPT ![i].state = how,
                           ![i].left = Len(ovScopes) - Cardinality(ActiveScopes) + 1]
    /\ UNCHANGED ovPeak
    /\ UNCHANGED <<ratesVars, icVars, tlVars, flVars, outVars, colVars, mxVars, rpVars, bdVars,
                   agVars, pcVars, cyVars, dsVars, lcVars, cmVars>>

InitOverlap ==
    /\ phase = "done"
    /\ line = NoEntry
    /\ RatesInit
    /\ InterceptIdle
    /\ TraceLoggerIdle
    /\ FlattenIdle
    /\ OutputIdle
    /\ CollectIdle
    /\ MatrixIdle
    /\ ReportIdle
    /\ BreakdownIdle
    /\ AggregateIdle
    /\ PercentileIdle
    /\ CypherIdle
    /\ DatasetIdle
    /\ LifecycleIdle
    /\ ovInstalled = [p \in Paths |-> Original]
    /\ ovScopes = <<>>
    /\ ovPeak = 0
    /\ CompareIdle

NextOverlap ==
    \/ OvEnter
    \/ OvExit

SpecOverlap == InitOverlap /\ [][NextOverlap]_vars

AllScopesLeft == ovScopes # <<>> /\ ActiveScopes = {}

WrapperStillInstalled == \E p \in Neo4jPaths : ovInstalled[p] # Original

\* A enters, B enters, A leaves, B leaves, both with a logger
LeftInOrderOfEntry ==
    /\ Len(ovScopes) = 2
    /\ ovPeak = 2
    /\ ovScopes[1].patched /\ ovScopes[2].patched
    /\ ovScopes[1].left = 1 /\ ovScopes[2].left = 2

\* C33: when two scopes overlap without nesting (A enters, B enters, A
\* leaves, B leaves), both have been left and a traced wrapper is still
\* installed; when at most one scope was ever active at a time, no state with
\* every scope left and a wrapper still installed is reachable.
C33_OverlapLeavesWrapper ==
    /\ LeftInOrderOfEntry => (AllScopesLeft /\ WrapperStillInstalled)
    /\ (AllScopesLeft /\ ovPeak <= 1) => ~WrapperStillInstalled

C33_Witness ==
    /\ LeftInOrderOfEntry
    /\ AllScopesLeft
    /\ \A p \in Neo4jPaths : ovInstalled[p] = 1

(***************************************************************************)
(* classify_cypher_query over statements written with every keyword its    *)
(* rules look for.                                                         *)
(***************************************************************************)

TagVocabulary ==
    { <<"M", "E", "R", "G", "E">>,
      <<"C", "r", "e", "a", "t", "e">>,
      <<"D", "E", "L", "E", "T", "E">>,
      <<"S", "e", "t">>,
      <<"M", "A", "T", "C", "H">>,
      <<"W", "i", "t", "h">>,
      <<"R", "E", "T", "U", "R", "N">>,
      <<"I", "N", "D", "E", "X">>,
      <<"S", "h", "o", "w">>,
      <<"I", "N", "D", "E", "X", "E", "S">>,
      <<"D", "R", "O", "P">>,
      <<"C", "o", "n", "s", "t", "r", "a", "i", "n", "t">>,
      <<"v", "e", "c", "t", "o", "r", ".", "s", "i", "m", "i", "l", "a", "r", "i", "t", "y", "(", "n", ")">>,
      <<"d", "b", ".", "i", "n", "d", "e", "x", ".", "f", "u", "l", "l", "t", "e", "x", "t", ".", "q", "u", "e", "r", "y", "N", "o", "d", "e", "s", "(", "x", ")">>,
      <<"d", "b", ".", "i", "n", "d", "e", "x", ".", "v", "e", "c", "t", "o", "r", ".", "q", "u", "e", "r", "y", "N", "o", "d", "e", "s", "(", "x", ")">>,
      <<"(", "n", ")">> }

TagStyles == {"plain", "lines"}

InitClassify ==
    /\ phase = "done"
    /\ line = NoEntry
    /\ RatesInit
    /\ InterceptIdle
    /\ TraceLoggerIdle
    /\ FlattenIdle
    /\ OutputIdle
    /\ CollectIdle
    /\ MatrixIdle
    /\ ReportIdle
    /\ BreakdownIdle
    /\ AggregateIdle
    /\ PercentileIdle
    /\ DatasetIdle
    /\ LifecycleIdle
    /\ OverlapIdle
    /\ CompareIdle
    /\ \E words \in SeqsUpTo(TagVocabulary, MaxTagWords), style \in TagStyles :
        query = Written(words, style)
    /\ queryB = query
    /\ relation = "respaced"
    /\ tag = "none"
    /\ hashes = NoHashes
    /\ patterns = <<>>

NextClassify == DescribeQueries

SpecClassify == InitClassify /\ [][NextClassify]_vars

Tags == {"unknown", "indexing", "search", "write", "read", "other"}

WordEndsWith(word, suffix) ==
    Len(suffix) <= Len(word)
    /\ \A i \in 1 .. Len(suffix) : word[Len(word) - Len(suffix) + i] = suffix[i]

\* two neighbouring words: the first ends with one text, the next starts with
\* the other
HasPair(words, first, second) ==
    \E i \in 1 .. Len(words) - 1 :
        WordEndsWith(words[i], first) /\ WordStartsWith(words[i + 1], second)

\* the rules in the order the claim lists them, read word by word
FirstRuleOf(text) ==
    LET words == WordsOf(text)
        create == <<"c", "r", "e", "a", "t", "e">>
        drop == <<"d", "r", "o", "p">>
        index == <<"i", "n", "d", "e", "x">>
        constraint == <<"c", "o", "n", "s", "t", "r", "a", "i", "n", "t">>
        match == <<"m", "a", "t", "c", "h">>
    IN
    IF words = <<>> THEN "unknown"
    ELSE IF \/ HasPair(words, create, index) \/ HasPair(words, drop, index)
            \/ HasPair(words, <<"s", "h", "o", "w">>, <<"i", "n", "d", "e", "x", "e", "s">>)
            \/ HasPair(words, create, constraint) \/ HasPair(words, drop, constraint)
    THEN "indexing"
    ELSE IF \E i \in 1 .. Len(words) :
               \/ Contains(words[i], <<"v", "e", "c", "t", "o", "r", ".", "s", "i", "m", "i", "l", "a", "r", "i", "t", "y">>)
               \/ Contains(words[i], <<"d", "b", ".", "i", "n", "d", "e", "x", ".", "f", "u", "l", "l", "t", "e", "x", "t", ".", "q", "u", "e", "r", "y">>)
               \/ Contains(words[i], <<"v", "e", "c", "t", "o", "r", ".", "q", "u", "e", "r", "y", "n", "o", "d", "e", "s">>)
    THEN "search"
    ELSE IF \E pre \in {<<"m", "e", "r", "g", "e">>, create, <<"d", "e", "l", "e", "t", "e">>, <<"s", "e", "t">>} :
               WordStartsWith(words[1], pre)
    THEN "write"
    ELSE IF \/ WordStartsWith(words[1], match)
            \/ (Len(words) >= 2 /\ words[1] = <<"w", "i", "t", "h">> /\ WordStartsWith(words[2], match))
            \/ \E i \in 2 .. Len(words) - 1 : words[i] = <<"r", "e", "t", "u", "r", "n">>
    THEN "read"
    ELSE "other"

\* C34: classify_cypher_query gives every text exactly one of the six tags,
\* the one of the first rule that matches the lower-cased, whitespace-
\* normalized text: empty, indexing keyword, search call, write prefix, read
\* prefix or ' return ', and otherwise other.
C34_FirstMatchingRule ==
    tag # "none" => (tag \in Tags /\ tag = FirstRuleOf(query))

C34_Witness ==
    /\ query = Written(<<<<"W", "i", "t", "h">>, <<"M", "A", "T", "C", "H">>, <<"(", "n", ")">>>>, "lines")
    /\ tag = "read"

(***************************************************************************)
(* The two record writers with extension fields of any name: the keyword   *)
(* arguments of TraceLogger.log and the context a BreakdownLogger is       *)
(* constructed with.  A run of this specification follows one writer.      *)
(***************************************************************************)

\* BreakdownLogger(path, **context): the context of the collectors, and
\* contexts with a key named like a field log_event writes itself
SharedContexts ==
    { LoggerContext(BreakdownContext("run_matrix --with-breakdown", 1)),
      <<Pair("session_id", StrVal(<<"mem0_corpus50">>)), Pair("component", StrVal(<<"mem0">>))>>,
      <<Pair("status", StrVal(<<"error">>)), Pair("op", StrVal(<<"add">>))>> }

InitFields ==
    /\ phase = "done"
    /\ line = NoEntry
    /\ RatesInit
    /\ InterceptIdle
    /\ FlattenIdle
    /\ OutputIdle
    /\ CollectIdle
    /\ MatrixIdle
    /\ ReportIdle
    /\ AggregateIdle
    /\ PercentileIdle
    /\ CypherIdle
    /\ DatasetIdle
    /\ LifecycleIdle
    /\ OverlapIdle
    /\ CompareIdle
    /\ \/ /\ disk = <<>>
          /\ buffer = <<>>
          /\ handle = "open"
          /\ session \in SessionIds
          /\ logged = <<>>
          /\ crashed = FALSE
          /\ runs = 1
          /\ BreakdownIdle
       \/ /\ TraceLoggerIdle
          /\ bdFile = <<>>
          /\ bdLogger \in [open : {TRUE}, context : SharedContexts]
          /\ bdCalls = <<>>
          /\ bdRuns = 1

NextFields ==
    \/ Log
    \/ BreakdownLogEvent

SpecFields == InitFields /\ [][NextFields]_vars

\* the line of a log() call has the call's own timestamp, input, output and
\* the logger's session_id
OwnTraceFields(obj, call) ==
    /\ HasKey(obj, "timestamp") /\ DictGet(obj, "timestamp") = IntVal(call.timestamp)
    /\ HasKey(obj, "input") /\ DictGet(obj, "input") = StrVal(call.input)
    /\ HasKey(obj, "output") /\ DictGet(obj, "output") = StrVal(call.output)
    /\ HasKey(obj, "session_id") /\ DictGet(obj, "session_id") = StrVal(<<session>>)

\* the event of a log_event() call has the call's component and op, and the
\* status the call was made with
OwnEventFields(event, call) ==
    /\ HasKey(event, "component") /\ DictGet(event, "component") = StrVal(<<call.component>>)
    /\ HasKey(event, "op") /\ DictGet(event, "op") = StrVal(<<call.op>>)
    /\ HasKey(event, "status") /\ DictGet(event, "status") = StrVal(<<"ok">>)

\* C38 as stated: the required fields of a record cannot be overridden by
\* extension fields: every line TraceLogger.log writes has the logger's own
\* timestamp, input, output and session_id whatever the metadata keys, and
\* every event BreakdownLogger.log_event writes has the call's component, op
\* and status whatever the keys of the context and of the fields.
C38_RequiredFieldsAreOwn ==
    /\ handle = "open" =>
        LET lines == SplitLines(disk) IN
        /\ Len(lines) = Len(logged)
        /\ \A i \in 1 .. Len(logged) :
            Loads(lines[i]).ok /\ OwnTraceFields(Loads(lines[i]).obj, logged[i])
    /\ bdLogger.open =>
        /\ Len(bdFile) = Len(bdCalls)
        /\ \A k \in 1 .. Len(bdFile) : OwnEventFields(bdFile[k], bdCalls[k])

\* an event whose component is the context's, not the call's
C38_Witness ==
    /\ bdLogger.open
    /\ Len(bdFile) = 1
    /\ bdCalls[1].component = "collector"
    /\ HasKey(bdLogger.context, "component")
    /\ DictGet(bdFile[1], "component") = StrVal(<<"mem0">>)

(***************************************************************************)
(* compare_chart._compute_hit_rates and matrix_report._compute_rates read  *)
(* the same match file, line by line; each keeps its own totals.           *)
(***************************************************************************)

HitTokensOfFirst(matches) ==
    IF matches = <<>> THEN {} ELSE Head(matches)[1] .. (Head(matches)[2] - 1)

RECURSIVE HitTokens(_)
\* compare_chart.py, lines 84-88: matched_tokens, filled range by range,
\* the ranges taken as they are
HitTokens(matches) ==
    IF matches = <<>> THEN {}
    ELSE (Head(matches)[1] .. (Head(matches)[2] - 1)) \cup HitTokens(Tail(matches))

\* compare_chart.py, lines 75-104: what one loop iteration adds to the totals
HitAdds(e) ==
    IF e.InputLen = 0 \/ e.Matches = <<>>
    THEN [input |-> e.InputLen, prefix |-> 0, substring |-> 0]
    ELSE [input     |-> e.InputLen,
          prefix    |-> PrefixScan(SortByStart(e.Matches), 0),
          substring |-> Cardinality(HitTokens(e.Matches))]

\* compare_chart.py, lines 106-117: the returned dict
HitRatesOf(n, total_input, total_prefix, total_substring) ==
    IF total_input = 0
    THEN [error |-> FALSE, count |-> 0, avg_tokens |-> Zero, prefix |-> Zero,
          substring |-> Zero, gap |-> Zero]
    ELSE [error      |-> n = 0,
          count      |-> n,
          avg_tokens |-> IF n = 0 THEN Zero ELSE Frac(total_input, n),
          prefix     |-> Frac(total_prefix, total_input),
          substring  |-> Frac(total_substring, total_input),
          gap        |-> FracSub(Frac(total_substring, total_input),
                                 Frac(total_prefix, total_input))]

\* the ranges 0 <= MatchStart <= MatchEnd <= n
RangesWithin(n) == {r \in (0 .. n) \X (0 .. n) : r[1] <= r[2]}

\* the lines of the file: every entry whose ranges lie within its input, and
\* entries with a range that reaches past the input or starts before it
FileLines ==
    UNION {{[InputLen |-> n, Matches |-> ms] :
               ms \in UNION {[1 .. k -> RangesWithin(n)] : k \in 0 .. MaxFileMatches}} :
           n \in 0 .. MaxFileLen}
    \cup {[InputLen |-> 1, Matches |-> << <<0, 2>> >>],
          [InputLen |-> 2, Matches |-> << <<-1, 1>> >>]}

Plus(totals, a) ==
    [input |-> totals.input + a.input, prefix |-> totals.prefix + a.prefix,
     substring |-> totals.substring + a.substring]

\* both loops read the next line of the file
CmReadLine ==
    /\ ~cmOut.done
    /\ cmCount < MaxFileLines
    /\ \E e \in FileLines :
        /\ cmChart' = Plus(cmChart, HitAdds(e))
        /\ cmReport' = Plus(cmReport, EntryAdds(e))
        /\ cmWellFormed' = (cmWellFormed /\ WellFormedEntry(e))
    /\ cmCount' = cmCount + 1
    /\ UNCHANGED cmOut
    /\ UNCHANGED <<ratesVars, icVars, tlVars, flVars, outVars, colVars, mxVars, rpVars, bdVars,
                   agVars, pcVars, cyVars, dsVars, lcVars, ovVars>>

\* end of file: both functions return
CmReturn ==
    /\ ~cmOut.done
    /\ cmOut' = [done |-> TRUE,
                 chart |-> HitRatesOf(cmCount, cmChart.input, cmChart.prefix, cmChart.substring),
                 report |-> RatesOf(cmCount, cmReport.input, cmReport.prefix, cmReport.substring)]
    /\ UNCHANGED <<cmCount, cmChart, cmReport, cmWellFormed>>
    /\ UNCHANGED <<ratesVars, icVars, tlVars, flVars, outVars, colVars, mxVars, rpVars, bdVars,
                   agVars, pcVars, cyVars, dsVars, lcVars, ovVars>>

InitCompare ==
    /\ phase = "done"
    /\ line = NoEntry
    /\ RatesInit
    /\ InterceptIdle
    /\ TraceLoggerIdle
    /\ FlattenIdle
    /\ OutputIdle
    /\ CollectIdle
    /\ MatrixIdle
    /\ ReportIdle
    /\ BreakdownIdle
    /\ AggregateIdle
    /\ PercentileIdle
    /\ CypherIdle
    /\ DatasetIdle
    /\ LifecycleIdle
    /\ OverlapIdle
    /\ cmCount = 0
    /\ cmChart = NoAdds
    /\ cmReport = NoAdds
    /\ cmWellFormed = TRUE
    /\ cmOut = NoOutput

NextCompare ==
    \/ CmReadLine
    \/ CmReturn

SpecCompare == InitCompare /\ [][NextCompare]_vars

\* C39: for every match file whose ranges satisfy 0 <= MatchStart <=
\* MatchEnd <= InputLen and whose total InputLen is positive, the chart
\* aggregator and the report aggregator return the same count, avg_tokens,
\* prefix, substring and gap.
C39_AggregatorsAgree ==
    (cmOut.done /\ cmWellFormed /\ cmReport.input > 0) =>
        /\ ~cmOut.chart.error /\ ~cmOut.report.error
        /\ cmOut.chart.count = cmOut.report.count
        /\ cmOut.chart.avg_tokens = cmOut.report.avg_tokens
        /\ cmOut.chart.prefix = cmOut.report.prefix
        /\ cmOut.chart.substring = cmOut.report.substring
        /\ cmOut.chart.gap = cmOut.report.gap

C39_Witness ==
    /\ cmOut.done
    /\ cmWellFormed
    /\ cmCount = 3
    /\ cmOut.report.prefix = <<1, 4>>
    /\ cmOut.chart.substring = <<1, 2>>
    /\ cmOut.chart.gap = <<1, 4>>
    /\ cmOut.chart.avg_tokens = <<4, 3>>

====
